---------------------------- MODULE Spec2Model ----------------------------
(***************************************************************************)
(* FastStack engine (src/src/fs.c): the tick state machine fsGameTick and  *)
(* the routines it calls, as a state machine over the fields of FSGame.    *)
(*                                                                         *)
(* One action, fsGameTick(i, r), models one call of fsGameTick with the    *)
(* input snapshot i; r is the piece fsNextRandomPiece returns if newPiece  *)
(* runs in that call (newPiece runs at most once per call).                *)
(*                                                                         *)
(* actualY (a float in the source) is kept as an exact fixed-point number: *)
(* the variable holds actualY * SubCell.  gravity holds the option gravity *)
(* in the same unit (SubCell-ths of a cell per millisecond).               *)
(***************************************************************************)
EXTENDS Integers, Sequences, FiniteSets, TLC

(***************************************************************************)
(* Enumerations of fs.h.                                                   *)
(***************************************************************************)
FS_I == 0
FS_J == 1
FS_L == 2
FS_O == 3
FS_S == 4
FS_T == 5
FS_Z == 6
FS_NONE == 7

FS_NPT == 7
FS_NPR == 4
FS_NBP == 4

FSROT_CLOCKWISE == 1
FSROT_ANTICLOCKWISE == -1
FSROT_HALFTURN == 2

FSLOCK_ENTRY == 0
FSLOCK_STEP == 1
FSLOCK_MOVE == 2

FSS_FALLING == "FALLING"
FSS_LANDED == "LANDED"
FSS_ARE == "ARE"
FSS_NEW_PIECE == "NEW_PIECE"
FSS_LINES == "LINES"
FSS_QUIT == "QUIT"
FSS_GAMEOVER == "GAMEOVER"

\* Bits of FSInput.extra, kept as a set of flags.
FSI_HOLD == "HOLD"
FSI_HARD_DROP == "HARD_DROP"
FSI_FINESSE_DIRECTION == "FINESSE_DIRECTION"
FSI_FINESSE_ROTATION == "FINESSE_ROTATION"

(***************************************************************************)
(* Bounds of the model.                                                    *)
(***************************************************************************)
\* Denominator of the fixed-point actualY.
SubCell == 2
\* Field dimensions installed by Init of Spec (options fieldWidth/fieldHeight).
FieldW == 5
FieldH == 4
\* Number of fsGameTick calls explored.
MaxTicks == 11
\* Number of fsGameTick calls explored by SpecKin.
MaxTicksKin == 4
\* Number of piece types the randomizer draws from (a prefix of RandOrder).
NumRand == 2
\* Capacity of the preview queue.
PreviewLen == 2
\* SpecTall: field width, number of well depths, number of rows that may
\* carry a second gap, number of fsGameTick calls explored.
TallW == 4
NumWells == 3
NumGaps == 2
MaxTicksTall == 6
\* SpecGoal: greatest goal option, the longer areDelay option (ms), number
\* of fsGameTick calls explored.
MaxGoal == 3
LongAre == 2
MaxTicksGoal == 7
\* SpecLock: cap of the history variable sinceMove, number of fsGameTick
\* calls explored.
MaxSince == 4
MaxTicksLock == 9
\* Number of fsGameTick calls explored by SpecRot.
MaxTicksRot == 8
\* Number of fsGameTick calls explored by SpecEntry.
MaxTicksEntry == 10
\* SpecArgs: greatest number of command-line arguments after the program name.
MaxArgs == 2
\* Widths in bits of long long, of int and of a destination field of the
\* option macros, scaled down together.
LLBits == 6
IntBits == 4
FieldBits == 4

(***************************************************************************)
(* Static tables.                                                          *)
(***************************************************************************)
pieceOffsets ==
    [p \in 0..(FS_NPT - 1) |->
      CASE p = FS_I -> << << <<0,1>>, <<1,1>>, <<2,1>>, <<3,1>> >>,
                          << <<2,0>>, <<2,1>>, <<2,2>>, <<2,3>> >>,
                          << <<0,2>>, <<1,2>>, <<2,2>>, <<3,2>> >>,
                          << <<1,0>>, <<1,1>>, <<1,2>>, <<1,3>> >> >>
        [] p = FS_J -> << << <<0,0>>, <<0,1>>, <<1,1>>, <<2,1>> >>,
                          << <<1,0>>, <<1,1>>, <<1,2>>, <<2,0>> >>,
                          << <<0,1>>, <<1,1>>, <<2,1>>, <<2,2>> >>,
                          << <<0,2>>, <<1,0>>, <<1,1>>, <<1,2>> >> >>
        [] p = FS_L -> << << <<0,1>>, <<1,1>>, <<2,0>>, <<2,1>> >>,
                          << <<1,0>>, <<1,1>>, <<1,2>>, <<2,2>> >>,
                          << <<0,1>>, <<0,2>>, <<1,1>>, <<2,1>> >>,
                          << <<0,0>>, <<1,0>>, <<1,1>>, <<1,2>> >> >>
        [] p = FS_O -> << << <<1,0>>, <<1,1>>, <<2,0>>, <<2,1>> >>,
                          << <<1,0>>, <<1,1>>, <<2,0>>, <<2,1>> >>,
                          << <<1,0>>, <<1,1>>, <<2,0>>, <<2,1>> >>,
                          << <<1,0>>, <<1,1>>, <<2,0>>, <<2,1>> >> >>
        [] p = FS_S -> << << <<0,1>>, <<1,0>>, <<1,1>>, <<2,0>> >>,
                          << <<1,0>>, <<1,1>>, <<2,1>>, <<2,2>> >>,
                          << <<0,2>>, <<1,1>>, <<1,2>>, <<2,1>> >>,
                          << <<0,0>>, <<0,1>>, <<1,1>>, <<1,2>> >> >>
        [] p = FS_T -> << << <<0,1>>, <<1,0>>, <<1,1>>, <<2,1>> >>,
                          << <<1,0>>, <<1,1>>, <<1,2>>, <<2,1>> >>,
                          << <<0,1>>, <<1,1>>, <<1,2>>, <<2,1>> >>,
                          << <<0,1>>, <<1,0>>, <<1,1>>, <<1,2>> >> >>
        [] OTHER    -> << << <<0,0>>, <<1,0>>, <<1,1>>, <<2,1>> >>,
                          << <<1,1>>, <<1,2>>, <<2,0>>, <<2,1>> >>,
                          << <<0,1>>, <<1,1>>, <<1,2>>, <<2,2>> >>,
                          << <<0,1>>, <<0,2>>, <<1,0>>, <<1,1>> >> >> ]

pieceColors == [p \in 0..(FS_NPT - 1) |-> 16 * (p + 1)]


(***************************************************************************)
(* The rotation system in use (rotationSystems[f->rotationSystem]) and the *)
(* empty wallkick table.  Their source file is not part of src/; they are  *)
(* written from the specification: SRS, no entry rotation, the standard    *)
(* SRS kick rows (y grows downward), no kicks for O and for half turns.    *)
(***************************************************************************)
FS_MAX_KICK_LEN == 6
WK_END == 127

Kicks(s) ==
    [k \in 1..FS_MAX_KICK_LEN |->
        IF k <= Len(s) THEN <<s[k][1], s[k][2], 0>> ELSE <<0, 0, WK_END>>]

emptyWallkickTable ==
    [t \in 1..FS_NPR |-> Kicks(<< <<0,0>> >>)]

kickTables ==
    [n \in 0..3 |->
      CASE n = 0 -> << Kicks(<< <<0,0>>, <<-1,0>>, <<-1,-1>>, <<0,2>>,  <<-1,2>> >>),
                       Kicks(<< <<0,0>>, <<1,0>>,  <<1,1>>,   <<0,-2>>, <<1,-2>> >>),
                       Kicks(<< <<0,0>>, <<1,0>>,  <<1,-1>>,  <<0,2>>,  <<1,2>> >>),
                       Kicks(<< <<0,0>>, <<-1,0>>, <<-1,1>>,  <<0,-2>>, <<-1,-2>> >>) >>
        [] n = 1 -> << Kicks(<< <<0,0>>, <<1,0>>,  <<1,-1>>,  <<0,2>>,  <<1,2>> >>),
                       Kicks(<< <<0,0>>, <<1,0>>,  <<1,1>>,   <<0,-2>>, <<1,-2>> >>),
                       Kicks(<< <<0,0>>, <<-1,0>>, <<-1,-1>>, <<0,2>>,  <<-1,2>> >>),
                       Kicks(<< <<0,0>>, <<-1,0>>, <<-1,1>>,  <<0,-2>>, <<-1,-2>> >>) >>
        [] n = 2 -> << Kicks(<< <<0,0>>, <<-2,0>>, <<1,0>>,   <<-2,1>>, <<1,-2>> >>),
                       Kicks(<< <<0,0>>, <<-1,0>>, <<2,0>>,   <<-1,-2>>, <<2,1>> >>),
                       Kicks(<< <<0,0>>, <<2,0>>,  <<-1,0>>,  <<2,-1>>, <<-1,2>> >>),
                       Kicks(<< <<0,0>>, <<1,0>>,  <<-2,0>>,  <<1,2>>,  <<-2,-1>> >>) >>
        [] OTHER -> << Kicks(<< <<0,0>>, <<-1,0>>, <<2,0>>,   <<-1,-2>>, <<2,1>> >>),
                       Kicks(<< <<0,0>>, <<2,0>>,  <<-1,0>>,  <<2,-1>>, <<-1,2>> >>),
                       Kicks(<< <<0,0>>, <<1,0>>,  <<-2,0>>,  <<1,2>>,  <<-2,-1>> >>),
                       Kicks(<< <<0,0>>, <<-2,0>>, <<1,0>>,   <<-2,1>>, <<1,-2>> >>) >> ]

rotationSystem ==
    [ entryTheta |-> [p \in 0..(FS_NPT - 1) |-> 0],
      kicksR |-> [p \in 0..(FS_NPT - 1) |->
                    IF p = FS_I THEN 2 ELSE IF p = FS_O THEN -1 ELSE 0],
      kicksL |-> [p \in 0..(FS_NPT - 1) |->
                    IF p = FS_I THEN 3 ELSE IF p = FS_O THEN -1 ELSE 1],
      kicksH |-> [p \in 0..(FS_NPT - 1) |-> -1],
      kickTables |-> kickTables ]

(***************************************************************************)
(* Piece projection and collision.  g is the FSGame instance as a record.  *)
(***************************************************************************)
\* offsets is pieceOffsets[piece][calcTheta].
Translate(offsets, x, y) ==
    [n \in 1..FS_NBP |-> << offsets[n][1] + x, offsets[n][2] + y >>]

fsPieceToBlocks(g, piece, x, y, theta) ==
    Translate(pieceOffsets[piece][((theta + rotationSystem.entryTheta[piece]) % 4) + 1],
              x, y)

isOccupied(g, x, y) ==
    IF x < 0 \/ x >= g.fieldWidth \/ y < 0 \/ y >= g.fieldHeight
        THEN TRUE
        ELSE g.b[y][x] > 1

AnyOccupied(g, blocks) ==
    \E n \in 1..FS_NBP : isOccupied(g, blocks[n][1], blocks[n][2])

isCollision(g, x, y, theta) ==
    AnyOccupied(g, fsPieceToBlocks(g, g.piece, x, y, theta))

\* Cells of the logical field, used where lockPiece stores into f->b.
InField(g, c) ==
    /\ 0 <= c[1] /\ c[1] < g.fieldWidth
    /\ 0 <= c[2] /\ c[2] < g.fieldHeight

(***************************************************************************)
(* lockPiece: writes the 4 projected cells and accounts finesse.  A cell   *)
(* that lies outside the logical field is not part of b: the store lands   *)
(* outside the field (outside the array when its row is negative), which   *)
(* wroteOutside records.                                                   *)
(***************************************************************************)
fLook == <<0, 1, 2, 1>>

wastedDirection(g) ==
    IF g.finessePieceDirection > 2 THEN g.finessePieceDirection - 2 ELSE 0

wastedRotation(g) ==
    IF g.piece = FS_O
      THEN IF g.finessePieceRotation > fLook[g.theta + 1]
             THEN g.finessePieceRotation - fLook[g.theta + 1]
             ELSE 0
      ELSE g.finessePieceRotation

\* cells is the set of the 4 projected blocks.
StoreBlocks(g, cells) ==
    [g EXCEPT
        !.blocksPlaced = @ + 1,
        !.b = [yy \in DOMAIN g.b |-> [xx \in DOMAIN g.b[yy] |->
                    IF <<xx, yy>> \in cells THEN pieceColors[g.piece]
                                            ELSE g.b[yy][xx]]],
        !.wroteOutside = @ \/ (\E c \in cells : ~InField(g, c)),
        !.finesse = @ + wastedDirection(g) + wastedRotation(g)]

BlockSet(blocks) == {blocks[n] : n \in 1..FS_NBP}

lockPiece(g) ==
    StoreBlocks(g, BlockSet(fsPieceToBlocks(g, g.piece, g.x, g.y, g.theta)))

(***************************************************************************)
(* newPiece(g, r): spawn; r is the value fsNextRandomPiece returns.        *)
(* memcpy moves FS_PREVIEW_MAX - 1 bytes of the queue one slot down: slot k *)
(* receives the piece id of slot k + 1 when the low byte of slot k lies     *)
(* within the bytes copied (piece ids fit one byte), and keeps its value    *)
(* otherwise.  FSBlockSize is sizeof(FSBlock).                              *)
(***************************************************************************)
FSBlockSize == 1

ShiftQueue_NoShift(q, n, r) ==
    [k \in 1..n |-> IF k < n THEN q[k] ELSE r]

ShiftQueue(q, n, r) ==
    [k \in 1..n |-> IF k = n THEN r
                    ELSE IF (k - 1) * FSBlockSize <= n - 2 THEN q[k + 1]
                    ELSE q[k]]

newPiece(g, r) ==
        [g EXCEPT
            !.x = g.fieldWidth \div 2 - 1,
            !.y = 0,
            !.actualY = 0,
            !.theta = 0,
            !.lockTimer = 0,
            !.finessePieceRotation = 0,
            !.finessePieceDirection = 0,
            !.piece = g.nextPiece[1],
            !.nextPiece = ShiftQueue(g.nextPiece, Len(g.nextPiece), r),
            !.holdAvailable = TRUE,
            !.sinceMove = 0]

(***************************************************************************)
(* doRotate: returns the instance after the attempt and whether it         *)
(* succeeded.                                                              *)
(***************************************************************************)
RECURSIVE tryKicks(_, _, _, _)
\* Variant: the last entry that fits is committed, not the first.
tryKick_Last(g, table, newDir, k, kickData) ==
    IF kickData[3] = WK_END THEN [g |-> g, ok |-> FALSE]
    ELSE LET rest == tryKicks(g, table, newDir, k + 1)
         IN IF rest.ok THEN rest
            ELSE IF ~isCollision(g, kickData[1] + g.x, kickData[2] + g.y, newDir)
                   THEN [g |-> [g EXCEPT !.y = kickData[2] + g.y,
                                          !.x = kickData[1] + g.x,
                                          !.theta = newDir],
                         ok |-> TRUE]
                   ELSE rest

tryKick(g, table, newDir, k, kickData) ==
    IF kickData[3] = WK_END THEN [g |-> g, ok |-> FALSE]
    ELSE IF ~isCollision(g, kickData[1] + g.x, kickData[2] + g.y, newDir)
           THEN [g |-> [g EXCEPT !.y = kickData[2] + g.y,
                                  !.x = kickData[1] + g.x,
                                  !.theta = newDir],
                 ok |-> TRUE]
           ELSE tryKicks(g, table, newDir, k + 1)

tryKicks(g, table, newDir, k) ==
    IF k > FS_MAX_KICK_LEN THEN [g |-> g, ok |-> FALSE]
    ELSE tryKick(g, table, newDir, k, table[g.theta + 1][k])

kickTableNo(g, direction) ==
    CASE direction = FSROT_CLOCKWISE -> rotationSystem.kicksR[g.piece]
      [] direction = FSROT_ANTICLOCKWISE -> rotationSystem.kicksL[g.piece]
      [] direction = FSROT_HALFTURN -> rotationSystem.kicksH[g.piece]

kickTable(tableNo) ==
    IF tableNo >= 0 THEN rotationSystem.kickTables[tableNo]
                    ELSE emptyWallkickTable

\* Variant: every rotation turns clockwise.
doRotate_Clockwise(g, direction) ==
    tryKicks(g, kickTable(kickTableNo(g, direction)), (g.theta + 4 + 1) % 4, 1)

doRotate(g, direction) ==
    tryKicks(g, kickTable(kickTableNo(g, direction)),
             (g.theta + 4 + direction) % 4, 1)

(***************************************************************************)
(* doPieceGravity.  actualY is in SubCell-ths of a cell; the C cast        *)
(* (FSInt) actualY truncates toward zero.                                  *)
(***************************************************************************)
\* Variant: the cast rounds toward minus infinity.
CastInt_Floor(a) == a \div SubCell

CastInt(a) ==
    IF a >= 0 THEN a \div SubCell ELSE -((-a) \div SubCell)

\* Variant: no clamp at hardDropY.
applyGravity_NoClamp(g, a) ==
    [g EXCEPT !.actualY = a, !.y = CastInt(a), !.state = FSS_FALLING]

\* a is actualY after the += of the first statement.
applyGravity(g, a) ==
    IF a >= g.hardDropY * SubCell
      THEN [g EXCEPT !.actualY = g.hardDropY * SubCell,
                     !.y = g.hardDropY,
                     !.state = IF g.state = FSS_FALLING THEN FSS_LANDED
                                                       ELSE g.state]
      ELSE [g EXCEPT !.actualY = a,
                     !.lockTimer =
                        IF /\ g.lockStyle \in {FSLOCK_STEP, FSLOCK_MOVE}
                           /\ CastInt(a) > g.y
                          THEN 0 ELSE @,
                     !.y = CastInt(a),
                     !.state = FSS_FALLING]

doPieceGravity(g, gravity) ==
    applyGravity(g, g.actualY + (g.msPerTick * g.gravity) + gravity * SubCell)

(***************************************************************************)
(* clearLines.  foundLines is an FSBits word of FSBitsWidth bits, kept as  *)
(* the set of its set bit positions; a left shift drops the bits that      *)
(* leave the word.                                                         *)
(***************************************************************************)
FSBitsWidth == 32

ShiftLeft(bits) == {n + 1 : n \in {m \in bits : m + 1 < FSBitsWidth}}

ShiftRight(bits) == {n - 1 : n \in {m \in bits : m >= 1}}

RowNonEmpty(g, y) == \A x \in 0..(g.fieldWidth - 1) : g.b[y][x] # 0

\* Variant: the mask is not shifted back after the last row.
RECURSIVE findLines_NoUnshift(_, _, _, _)
findLines_NoUnshift(g, y, foundLines, filledLineCount) ==
    IF y >= g.fieldHeight
      THEN [foundLines |-> foundLines, filledLineCount |-> filledLineCount]
      ELSE IF RowNonEmpty(g, y)
             THEN findLines_NoUnshift(g, y + 1, ShiftLeft(foundLines \cup {0}),
                                      filledLineCount + 1)
             ELSE findLines_NoUnshift(g, y + 1, ShiftLeft(foundLines),
                                      filledLineCount)

RECURSIVE findLines(_, _, _, _)
findLines(g, y, foundLines, filledLineCount) ==
    IF y >= g.fieldHeight
      THEN [foundLines |-> ShiftRight(foundLines),
            filledLineCount |-> filledLineCount]
      ELSE IF RowNonEmpty(g, y)
             THEN findLines(g, y + 1, ShiftLeft(foundLines \cup {0}),
                            filledLineCount + 1)
             ELSE findLines(g, y + 1, ShiftLeft(foundLines), filledLineCount)

\* Variant: the second pass copies nothing.
copyRows_None(b, src, dst, foundLines) == b

RECURSIVE copyRows(_, _, _, _)
copyRows(b, src, dst, foundLines) ==
    IF src < 0 THEN b
    ELSE IF 0 \in foundLines
           THEN copyRows(b, src - 1, dst, ShiftRight(foundLines))
           ELSE copyRows(IF src # dst THEN [b EXCEPT ![dst] = b[src]] ELSE b,
                         src - 1, dst - 1, ShiftRight(foundLines))

\* Variant: the third loop is left out.
zeroTop_None(copied, filledLineCount) ==
    [b |-> copied, filledLineCount |-> filledLineCount]

\* The third loop: the top filledLineCount rows are zeroed.
zeroTop(copied, filledLineCount) ==
    [b |-> [yy \in DOMAIN copied |->
                IF yy < filledLineCount
                  THEN [xx \in DOMAIN copied[yy] |-> 0]
                  ELSE copied[yy]],
     filledLineCount |-> filledLineCount]

secondPass(g, found) ==
    zeroTop(copyRows(g.b, g.fieldHeight - 1, g.fieldHeight - 1, found.foundLines),
            found.filledLineCount)

\* Returns the field after the call and the count the call returns.
clearLines(g) ==
    secondPass(g, findLines(g, 0, {}, 0))

(***************************************************************************)
(* updateHardDropY: the probe loop.                                        *)
(***************************************************************************)
RECURSIVE probeDown(_, _)
probeDown(g, y) ==
    IF ~isCollision(g, g.x, y, g.theta) THEN probeDown(g, y + 1) ELSE y

updateHardDropY(g) ==
    [g EXCEPT !.hardDropY = probeDown(g, g.y) - 1]

(***************************************************************************)
(* engine/option.c, fsParseOptString.  A C string is the sequence of its   *)
(* characters before the terminating NUL; CharAt gives the NUL past the    *)
(* end.  strcmpEq and strncmpEq say that strcmp and strncmp return 0.      *)
(***************************************************************************)
NUL == "NUL"

CharAt(str, k) == IF k <= Len(str) THEN str[k] ELSE NUL

strcmpEq(a, c) == a = c

\* The first n characters agree, up to and including a common NUL.
strncmpEq(a, c, n) ==
    \A k \in 1..n :
        (\A j \in 1..(k - 1) : CharAt(a, j) # NUL) => CharAt(a, k) = CharAt(c, k)

FS_LOG_LEVEL_INFO == 1
FS_LOG_LEVEL_DEBUG == 2

\* The process has not called exit.
NoExit == -1

ProgName == << "f", "s" >>

\* FSOptions after memset(o, 0, ...); replay is << >> for the null pointer
\* and << opt >> when it points to the argument opt.
NoOptions == [verbosity |-> 0, no_ini |-> FALSE, replay |-> << >>]

\* The condition of the replay branch.
isReplayArg(opt) ==
    strncmpEq(<< "-" >>, opt, 1) /\ strncmpEq(<< "-", "-" >>, opt, 2)

\* The loop from argument i on (the sequence index of argv[i - 1]); exit is
\* the status of the exit call that ends it, NoExit if it runs to the end.
RECURSIVE parseArgs(_, _, _)
parseArgs(opts, args, i) ==
    IF i > Len(args) THEN [o |-> opts, exit |-> NoExit]
    ELSE IF strcmpEq(<< "-", "v" >>, args[i])
      THEN parseArgs([opts EXCEPT !.verbosity = FS_LOG_LEVEL_INFO], args, i + 1)
    ELSE IF strcmpEq(<< "-", "v", "v" >>, args[i])
      THEN parseArgs([opts EXCEPT !.verbosity = FS_LOG_LEVEL_DEBUG], args, i + 1)
    ELSE IF \/ strcmpEq(<< "-", "i" >>, args[i])
            \/ strcmpEq(<< "-", "-", "n", "o", "-", "i", "n", "i" >>, args[i])
      THEN parseArgs([opts EXCEPT !.no_ini = TRUE], args, i + 1)
    ELSE IF \/ strcmpEq(<< "-", "h" >>, args[i])
            \/ strcmpEq(<< "-", "-", "h", "e", "l", "p" >>, args[i])
      THEN [o |-> opts, exit |-> 0]
    ELSE IF isReplayArg(args[i])
      THEN parseArgs([opts EXCEPT !.replay = << args[i] >>], args, i + 1)
    ELSE [o |-> opts, exit |-> 1]

\* fsParseOptString(o, argc, argv) with argc = Len(args).
fsParseOptString(args) == parseArgs(NoOptions, args, 2)

(***************************************************************************)
(* engine/option.h and unpackOptionValue.  The options modelled are those  *)
(* whose destination is a field of the state; value and key strings are    *)
(* sequences of characters as above.                                       *)
(***************************************************************************)
\* The string literals of option.c and option.h that the model uses.
Lit ==
    [ true |-> << "t", "r", "u", "e" >>,
      yes |-> << "y", "e", "s" >>,
      false |-> << "f", "a", "l", "s", "e" >>,
      no |-> << "n", "o" >>,
      entry |-> << "e", "n", "t", "r", "y" >>,
      step |-> << "s", "t", "e", "p" >>,
      move |-> << "m", "o", "v", "e" >>,
      gameprefix |-> << "g", "a", "m", "e", "." >>,
      areDelay |-> << "a", "r", "e", "D", "e", "l", "a", "y" >>,
      areCancellable |-> << "a", "r", "e", "C", "a", "n", "c", "e", "l", "l", "a", "b", "l", "e" >>,
      lockDelay |-> << "l", "o", "c", "k", "D", "e", "l", "a", "y" >>,
      msPerTick |-> << "m", "s", "P", "e", "r", "T", "i", "c", "k" >>,
      fieldWidth |-> << "f", "i", "e", "l", "d", "W", "i", "d", "t", "h" >>,
      lockStyle |-> << "l", "o", "c", "k", "S", "t", "y", "l", "e" >>,
      goal |-> << "g", "o", "a", "l" >> ]

\* The letters tolower maps, and their images.
Letters ==
    [ upper |->
        << "A", "B", "C", "D", "E", "F", "G", "H", "I", "J", "K", "L", "M",
           "N", "O", "P", "Q", "R", "S", "T", "U", "V", "W", "X", "Y", "Z" >>,
      lower |->
        << "a", "b", "c", "d", "e", "f", "g", "h", "i", "j", "k", "l", "m",
           "n", "o", "p", "q", "r", "s", "t", "u", "v", "w", "x", "y", "z" >> ]

tolower(c) ==
    IF \E k \in 1..Len(Letters.upper) : Letters.upper[k] = c
      THEN Letters.lower[CHOOSE k \in 1..Len(Letters.upper) : Letters.upper[k] = c]
      ELSE c

\* strcmpi(a, c) returns 0.
strcmpiEq(a, c) ==
    /\ Len(a) = Len(c)
    /\ \A k \in 1..Len(a) : tolower(a[k]) = tolower(c[k])

RECURSIVE Pow2(_)
Pow2(n) == IF n = 0 THEN 1 ELSE 2 * Pow2(n - 1)

LLONG_MAX == Pow2(LLBits - 1) - 1
LLONG_MIN == -Pow2(LLBits - 1)
INT_MAX == Pow2(IntBits - 1) - 1
FS_MAX_WIDTH == 5

Digits == << "0", "1", "2", "3", "4", "5", "6", "7", "8", "9" >>

isdigit(c) == \E d \in 1..10 : Digits[d] = c

DigitValue(c) == (CHOOSE d \in 1..10 : Digits[d] = c) - 1

isspace(c) == c = " "

RECURSIVE skipSpace(_, _)
skipSpace(str, k) ==
    IF isspace(CharAt(str, k)) THEN skipSpace(str, k + 1) ELSE k

\* The digits from index k on: where they end and their value, saturated
\* one past the range of long long.
RECURSIVE scanDigits(_, _, _)
scanDigits(str, k, acc) ==
    IF isdigit(CharAt(str, k))
      THEN scanDigits(str, k + 1,
                      IF 10 * acc + DigitValue(str[k]) > -LLONG_MIN
                        THEN -LLONG_MIN + 1
                        ELSE 10 * acc + DigitValue(str[k]))
      ELSE [end |-> k, n |-> acc]

\* strtoll(value, &_endptr, 10): val is the result, end the index _endptr
\* points to (1 is value itself), erange whether errno is ERANGE.
strtoll(str) ==
    LET p == skipSpace(str, 1)
        neg == CharAt(str, p) = "-"
        q == IF CharAt(str, p) \in {"-", "+"} THEN p + 1 ELSE p
        d == scanDigits(str, q, 0)
        v == IF neg THEN -d.n ELSE d.n
    IN  IF d.end = q THEN [val |-> 0, end |-> 1, erange |-> FALSE]
        ELSE IF v > LLONG_MAX THEN [val |-> LLONG_MAX, end |-> d.end, erange |-> TRUE]
        ELSE IF v < LLONG_MIN THEN [val |-> LLONG_MIN, end |-> d.end, erange |-> TRUE]
        ELSE [val |-> v, end |-> d.end, erange |-> FALSE]

llabs(v) == IF v < 0 THEN -v ELSE v

\* ceil(log2(n)) for n >= 1; log2(0) is minus infinity, below every width.
RECURSIVE ceilLog2From(_, _)
ceilLog2From(n, k) == IF Pow2(k) >= n THEN k ELSE ceilLog2From(n, k + 1)

ceilLog2(n) == IF n = 0 THEN -1 ELSE ceilLog2From(n, 0)

\* The conversion of the assignment dst->_id = _ival to a signed field of
\* FieldBits bits.
toField(v) ==
    LET r == v % Pow2(FieldBits)
    IN  IF r >= Pow2(FieldBits - 1) THEN r - Pow2(FieldBits) ELSE r

\* Variant: no range test.
TS_INT_RANGE_NoRange(g, id, lo, hi, value) ==
    LET r == strtoll(value)
    IN  IF r.erange THEN g
        ELSE IF r.end = 1 THEN g
        ELSE IF CharAt(value, r.end) # NUL THEN g
        ELSE IF ceilLog2(llabs(r.val)) > FieldBits - 1 THEN g
        ELSE [g EXCEPT ![id] = toField(r.val)]

\* The body of TS_INT_RANGE once the key has matched.
TS_INT_RANGE(g, id, lo, hi, value) ==
    LET r == strtoll(value)
    IN  IF r.erange THEN g
        ELSE IF r.end = 1 THEN g
        ELSE IF CharAt(value, r.end) # NUL THEN g
        ELSE IF r.val < lo \/ hi < r.val THEN g
        ELSE IF ceilLog2(llabs(r.val)) > FieldBits - 1 THEN g
        ELSE [g EXCEPT ![id] = toField(r.val)]

TS_INT(g, id, value) == TS_INT_RANGE(g, id, 0, LLONG_MAX, value)

TS_BOOL(g, id, value) ==
    IF \/ strcmpiEq(value, Lit.true) \/ strcmpiEq(value, Lit.yes)
       \/ strcmpiEq(value, << "1" >>)
      THEN [g EXCEPT ![id] = TRUE]
    ELSE IF \/ strcmpiEq(value, Lit.false) \/ strcmpiEq(value, Lit.no)
            \/ strcmpiEq(value, << "0" >>)
      THEN [g EXCEPT ![id] = FALSE]
    ELSE g

fsLockStyleLookup(value) ==
    IF strcmpiEq(value, Lit.entry) \/ strcmpiEq(value, << "0" >>) THEN FSLOCK_ENTRY
    ELSE IF strcmpiEq(value, Lit.step) \/ strcmpiEq(value, << "1" >>) THEN FSLOCK_STEP
    ELSE IF strcmpiEq(value, Lit.move) \/ strcmpiEq(value, << "2" >>) THEN FSLOCK_MOVE
    ELSE -1

\* The body of TS_INT_FUNC once the key has matched; ival is _func(value).
TS_INT_FUNC(g, id, ival) ==
    IF ival = -1 THEN g ELSE [g EXCEPT ![id] = ival]

\* The instance after unpackOptionValue(p, v, k, value), g being v->game.
unpackOptionValue(g, k, value) ==
    IF strncmpEq(k, Lit.gameprefix, 5)
      THEN LET key == SubSeq(k, 6, Len(k))
           IN  IF strcmpiEq(Lit.areDelay, key) THEN TS_INT(g, "areDelay", value)
               ELSE IF strcmpiEq(Lit.areCancellable, key)
                 THEN TS_BOOL(g, "areCancellable", value)
               ELSE IF strcmpiEq(Lit.lockDelay, key) THEN TS_INT(g, "lockDelay", value)
               ELSE IF strcmpiEq(Lit.msPerTick, key)
                 THEN TS_INT_RANGE(g, "msPerTick", 1, INT_MAX, value)
               ELSE IF strcmpiEq(Lit.fieldWidth, key)
                 THEN TS_INT_RANGE(g, "fieldWidth", 0, FS_MAX_WIDTH, value)
               ELSE IF strcmpiEq(Lit.lockStyle, key)
                 THEN TS_INT_FUNC(g, "lockStyle", fsLockStyleLookup(value))
               ELSE IF strcmpiEq(Lit.goal, key) THEN TS_INT(g, "goal", value)
               ELSE g
      ELSE g

(***************************************************************************)
(* State: the fields of FSGame that fs.c reads or writes, and three        *)
(* history variables: dispatched, the states the dispatcher of the most    *)
(* recent fsGameTick call went through, in order; wroteOutside, whether    *)
(* lockPiece ever stored outside the logical field; sinceMove, under lock  *)
(* style MOVE the number of calls (up to MaxSince) that ran the falling    *)
(* body for the current piece since the last one in which 'moved' was set. *)
(* Beside the instance: argv, the command line of the process; o, the      *)
(* FSOptions that fsParseOptString fills; exitCode, the status the process *)
(* exited with (NoExit while it runs).                                     *)
(***************************************************************************)
VARIABLES b, fieldWidth, fieldHeight, nextPiece, piece, x, y, actualY,
          hardDropY, theta, finesse, finessePieceDirection,
          finessePieceRotation, msPerTick, areDelay, areTimer, totalTicks,
          lockStyle, lockDelay, lockTimer, gravity, state, lastInput,
          holdAvailable, holdPiece, linesCleared, blocksPlaced, goal,
          areCancellable, dispatched, wroteOutside, sinceMove,
          argv, o, exitCode

vars == << b, fieldWidth, fieldHeight, nextPiece, piece, x, y, actualY,
           hardDropY, theta, finesse, finessePieceDirection,
           finessePieceRotation, msPerTick, areDelay, areTimer, totalTicks,
           lockStyle, lockDelay, lockTimer, gravity, state, lastInput,
           holdAvailable, holdPiece, linesCleared, blocksPlaced, goal,
           areCancellable, dispatched, wroteOutside, sinceMove,
           argv, o, exitCode >>

\* The instance *f as a record.
Game ==
    [ b |-> b, fieldWidth |-> fieldWidth, fieldHeight |-> fieldHeight,
      nextPiece |-> nextPiece, piece |-> piece, x |-> x, y |-> y,
      actualY |-> actualY, hardDropY |-> hardDropY, theta |-> theta,
      finesse |-> finesse, finessePieceDirection |-> finessePieceDirection,
      finessePieceRotation |-> finessePieceRotation, msPerTick |-> msPerTick,
      areDelay |-> areDelay, areTimer |-> areTimer, totalTicks |-> totalTicks,
      lockStyle |-> lockStyle, lockDelay |-> lockDelay, lockTimer |-> lockTimer,
      gravity |-> gravity, state |-> state, lastInput |-> lastInput,
      holdAvailable |-> holdAvailable, holdPiece |-> holdPiece,
      linesCleared |-> linesCleared, blocksPlaced |-> blocksPlaced,
      goal |-> goal, dispatched |-> dispatched, wroteOutside |-> wroteOutside,
      sinceMove |-> sinceMove, areCancellable |-> areCancellable ]

\* An input snapshot (FSInput).
Input(m, rot, gr, ex) ==
    [movement |-> m, rotation |-> rot, gravity |-> gr, extra |-> ex]

TICKS(g, ms) == ms \div g.msPerTick

(***************************************************************************)
(* The body of case FSS_FALLING / FSS_LANDED, in the order of the source.  *)
(***************************************************************************)
\* Variant: the hold is honoured whatever holdAvailable says.
holdStep_Ungated(g, i, r) ==
    IF FSI_HOLD \in i.extra
      THEN IF g.holdPiece = FS_NONE
             THEN [newPiece([g EXCEPT !.holdPiece = g.piece], r)
                     EXCEPT !.holdAvailable = FALSE]
             ELSE updateHardDropY(
                    [g EXCEPT !.holdAvailable = FALSE,
                              !.x = g.fieldWidth \div 2 - 1,
                              !.y = 0, !.actualY = 0, !.theta = 0,
                              !.lockTimer = 0,
                              !.holdPiece = g.piece,
                              !.piece = g.holdPiece])
      ELSE g

\* Variant: the swap leaves hardDropY as it was.
holdStep_NoRefresh(g, i, r) ==
    IF FSI_HOLD \in i.extra /\ g.holdAvailable
      THEN IF g.holdPiece = FS_NONE
             THEN [newPiece([g EXCEPT !.holdPiece = g.piece], r)
                     EXCEPT !.holdAvailable = FALSE]
             ELSE [g EXCEPT !.holdAvailable = FALSE,
                            !.x = g.fieldWidth \div 2 - 1,
                            !.y = 0, !.actualY = 0, !.theta = 0,
                            !.lockTimer = 0,
                            !.holdPiece = g.piece,
                            !.piece = g.holdPiece]
      ELSE g

holdStep(g, i, r) ==
    IF FSI_HOLD \in i.extra /\ g.holdAvailable
      THEN IF g.holdPiece = FS_NONE
             THEN [newPiece([g EXCEPT !.holdAvailable = FALSE,
                                      !.holdPiece = g.piece], r)
                     EXCEPT !.holdAvailable = FALSE]
             ELSE updateHardDropY(
                    [g EXCEPT !.holdAvailable = FALSE,
                              !.x = g.fieldWidth \div 2 - 1,
                              !.y = 0,
                              !.actualY = 0,
                              !.theta = 0,
                              !.lockTimer = 0,
                              !.holdPiece = g.piece,
                              !.piece = g.holdPiece])
      ELSE g

finesseStep(g, i) ==
    [g EXCEPT
        !.finessePieceDirection =
            IF FSI_FINESSE_DIRECTION \in i.extra THEN @ + 1 ELSE @,
        !.finessePieceRotation =
            IF FSI_FINESSE_ROTATION \in i.extra THEN @ + 1 ELSE @]

rotateStep(g, i) ==
    IF i.rotation # 0 THEN doRotate(g, i.rotation) ELSE [g |-> g, ok |-> FALSE]

\* Variant: the movement loops without the isCollision gate.
moveLoop_Ungated(gm, distance, dir) ==
    IF distance = 0 THEN gm
    ELSE [g |-> [gm.g EXCEPT !.x = @ + dir * distance], ok |-> TRUE]

\* Variant: the loops take one step at most.
moveLoop_Once(gm, distance, dir) ==
    IF distance = 0 THEN gm
    ELSE IF ~isCollision(gm.g, gm.g.x + dir, gm.g.y, gm.g.theta)
           THEN [g |-> [gm.g EXCEPT !.x = @ + dir], ok |-> TRUE]
           ELSE gm

\* The two movement loops: distance steps, each gated by isCollision.
RECURSIVE moveLoop(_, _, _)
moveLoop(gm, distance, dir) ==
    IF distance = 0 THEN gm
    ELSE IF ~isCollision(gm.g, gm.g.x + dir, gm.g.y, gm.g.theta)
           THEN moveLoop([g |-> [gm.g EXCEPT !.x = @ + dir], ok |-> TRUE],
                         distance - 1, dir)
           ELSE moveLoop(gm, distance - 1, dir)

moveStep(gm, i) ==
    IF i.movement < 0 THEN moveLoop(gm, -i.movement, -1)
    ELSE IF i.movement > 0 THEN moveLoop(gm, i.movement, 1)
    ELSE gm

\* Variant: lock style MOVE does not reset the timer.
movedStep_NoReset(gm) ==
    IF gm.ok
      THEN [updateHardDropY(gm.g) EXCEPT !.sinceMove = 0]
      ELSE gm.g

movedStep(gm) ==
    IF gm.ok
      THEN [updateHardDropY(gm.g) EXCEPT
                !.lockTimer = IF gm.g.lockStyle = FSLOCK_MOVE THEN 0 ELSE @,
                !.sinceMove = 0]
      ELSE gm.g

landedCount(g) ==
    IF g.state = FSS_LANDED THEN [g EXCEPT !.lockTimer = @ + 1] ELSE g

\* Variant: HARD_DROP does not bypass the lock timer.
lockCheck_TimerOnly(g, i) ==
    landedCount(IF g.lockTimer > TICKS(g, g.lockDelay)
                  THEN [g EXCEPT !.state = FSS_LINES] ELSE g)

\* Variant: the lock timer is compared with >=.
lockCheck_NotStrict(g, i) ==
    landedCount(IF FSI_HARD_DROP \in i.extra \/ g.lockTimer >= TICKS(g, g.lockDelay)
                  THEN [g EXCEPT !.state = FSS_LINES] ELSE g)

lockCheck(g, i) ==
    landedCount(IF FSI_HARD_DROP \in i.extra \/ g.lockTimer > TICKS(g, g.lockDelay)
                  THEN [g EXCEPT !.state = FSS_LINES] ELSE g)

\* One more call has run the falling body.
countCall(g) ==
    IF g.lockStyle = FSLOCK_MOVE /\ g.sinceMove < MaxSince
      THEN [g EXCEPT !.sinceMove = @ + 1] ELSE g

fallingBody(g, i, r) ==
    lockCheck(
        doPieceGravity(
            movedStep(moveStep(rotateStep(finesseStep(
                holdStep(countCall(g), i, r), i), i), i)),
            i.gravity),
        i)

(***************************************************************************)
(* The dispatcher: switch (f->state) with its goto beginTick re-entries.   *)
(***************************************************************************)
\* Variant: the game goes on until linesCleared exceeds the goal.
afterClear_PastGoal(locked, cleared) ==
    [locked EXCEPT
        !.piece = FS_NONE,
        !.b = cleared.b,
        !.linesCleared = @ + cleared.filledLineCount,
        !.state = IF locked.linesCleared + cleared.filledLineCount <= locked.goal
                    THEN FSS_ARE ELSE FSS_GAMEOVER]

\* locked is the instance after lockPiece, cleared what clearLines returns.
\* Variant: the locked piece is not invalidated.
afterClear_KeepsPiece(locked, cleared) ==
    [locked EXCEPT
        !.b = cleared.b,
        !.linesCleared = @ + cleared.filledLineCount,
        !.state = IF locked.linesCleared + cleared.filledLineCount < locked.goal
                    THEN FSS_ARE ELSE FSS_GAMEOVER]

afterClear(locked, cleared) ==
    [locked EXCEPT
        !.piece = FS_NONE,
        !.b = cleared.b,
        !.linesCleared = @ + cleared.filledLineCount,
        !.state = IF locked.linesCleared + cleared.filledLineCount < locked.goal
                    THEN FSS_ARE ELSE FSS_GAMEOVER]

afterLock(locked) ==
    afterClear(locked, clearLines([locked EXCEPT !.piece = FS_NONE]))

linesStep(g) == afterLock(lockPiece(g))

\* Variant: no lockout check on spawn.
spawnCheck_NoLockout(n) ==
    [updateHardDropY(n) EXCEPT !.state = FSS_FALLING]

\* n is the instance after newPiece.
spawnCheck(n) ==
    IF isCollision(n, n.x, n.y, n.theta)
      THEN [n EXCEPT !.state = FSS_GAMEOVER]
      ELSE [updateHardDropY(n) EXCEPT !.state = FSS_FALLING]

spawnStep(g, r) == spawnCheck(newPiece(g, r))

\* case FSS_GAMEOVER, case FSS_QUIT and default: break.
idleCase_Falling(g, i, r) == fallingBody(g, i, r)

idleCase(g, i, r) == g

RECURSIVE beginTick(_, _, _)
\* Variant: case FSS_NEW_PIECE always re-enters the dispatcher.
reenter_Always(n, i, r) == beginTick(n, i, r)

\* After case FSS_NEW_PIECE: goto beginTick on lockout, break otherwise.
\* Variant: GAMEOVER is dispatched a second time in the same call.
reenter_Twice(n, i, r) ==
    IF n.state = FSS_GAMEOVER THEN beginTick(beginTick(n, i, r), i, r) ELSE n

reenter(n, i, r) ==
    IF n.state = FSS_GAMEOVER THEN beginTick(n, i, r) ELSE n

dispatch(g, i, r) ==
    CASE g.state = FSS_ARE ->
            IF g.areTimer > TICKS(g, g.areDelay)
              THEN beginTick([g EXCEPT !.areTimer = 0,
                                       !.state = FSS_NEW_PIECE], i, r)
              ELSE [g EXCEPT !.areTimer = @ + 1]
      [] g.state = FSS_NEW_PIECE -> reenter(spawnStep(g, r), i, r)
      [] g.state \in {FSS_FALLING, FSS_LANDED} -> fallingBody(g, i, r)
      [] g.state = FSS_LINES -> beginTick(linesStep(g), i, r)
      [] OTHER -> idleCase(g, i, r)

beginTick(g, i, r) ==
    dispatch([g EXCEPT !.dispatched = Append(@, g.state)], i, r)

(***************************************************************************)
(* fsGameTick(i, r): one call.                                             *)
(***************************************************************************)
\* The instance after the call becomes the next state.
Commit(g) ==
    /\ b' = g.b
    /\ fieldWidth' = g.fieldWidth
    /\ fieldHeight' = g.fieldHeight
    /\ nextPiece' = g.nextPiece
    /\ piece' = g.piece
    /\ x' = g.x
    /\ y' = g.y
    /\ actualY' = g.actualY
    /\ hardDropY' = g.hardDropY
    /\ theta' = g.theta
    /\ finesse' = g.finesse
    /\ finessePieceDirection' = g.finessePieceDirection
    /\ finessePieceRotation' = g.finessePieceRotation
    /\ msPerTick' = g.msPerTick
    /\ areDelay' = g.areDelay
    /\ areTimer' = g.areTimer
    /\ totalTicks' = g.totalTicks
    /\ lockStyle' = g.lockStyle
    /\ lockDelay' = g.lockDelay
    /\ lockTimer' = g.lockTimer
    /\ gravity' = g.gravity
    /\ state' = g.state
    /\ lastInput' = g.lastInput
    /\ holdAvailable' = g.holdAvailable
    /\ holdPiece' = g.holdPiece
    /\ linesCleared' = g.linesCleared
    /\ blocksPlaced' = g.blocksPlaced
    /\ goal' = g.goal
    /\ dispatched' = g.dispatched
    /\ wroteOutside' = g.wroteOutside
    /\ sinceMove' = g.sinceMove
    /\ areCancellable' = g.areCancellable
    /\ UNCHANGED << argv, o, exitCode >>

\* Variant: the counter is left alone.
endTick_NoCount(g) == g

endTick(g) == [g EXCEPT !.totalTicks = @ + 1]

\* The instance g after the call fsGameTick(g, i).
tickResult(g, i, r) ==
    endTick(beginTick([g EXCEPT !.lastInput = i, !.dispatched = <<>>], i, r))

fsGameTick(i, r) == Commit(tickResult(Game, i, r))

(***************************************************************************)
(* fsNextRandomPiece: the randomizer's source is not part of src/; a draw  *)
(* is any piece type of the set the specification in use gives it.         *)
(***************************************************************************)
RandOrder == <<FS_J, FS_O, FS_I, FS_T, FS_Z, FS_L, FS_S>>

RandPieces == {RandOrder[k] : k \in 1..NumRand}

AllPieces == 0..(FS_NPT - 1)

\* Whether the call fsGameTick(i, .) reaches newPiece, and so draws from the
\* randomizer; a call that does not is taken once, not once per draw.
Draws(i, pieces) ==
    IF \/ state = FSS_NEW_PIECE
       \/ state = FSS_ARE /\ areTimer > TICKS(Game, areDelay)
       \/ /\ state \in {FSS_FALLING, FSS_LANDED}
          /\ FSI_HOLD \in i.extra /\ holdAvailable /\ holdPiece = FS_NONE
      THEN pieces
      ELSE {RandOrder[1]}

(***************************************************************************)
(* fsGameClear, followed by the host installing the options cfg; pieces is *)
(* the set the randomizer draws from, field the initial field contents.    *)
(***************************************************************************)
EmptyField(w, h) == [yy \in 0..(h - 1) |-> [xx \in 0..(w - 1) |-> 0]]

clearInstance(cfg, pieces, field) ==
    /\ b = field
    /\ fieldWidth = cfg.fieldWidth
    /\ fieldHeight = cfg.fieldHeight
    /\ msPerTick = cfg.msPerTick
    /\ areDelay = cfg.areDelay
    /\ lockStyle = cfg.lockStyle
    /\ lockDelay = cfg.lockDelay
    /\ gravity = cfg.gravity
    /\ goal = cfg.goal
    /\ state = FSS_NEW_PIECE
    /\ holdAvailable = TRUE
    /\ holdPiece = FS_NONE
    /\ piece \in pieces
    /\ nextPiece \in [1..PreviewLen -> pieces]
    /\ x = 0 /\ y = 0 /\ actualY = 0 /\ hardDropY = 0 /\ theta = 0
    /\ finesse = 0 /\ finessePieceDirection = 0 /\ finessePieceRotation = 0
    /\ areTimer = 0 /\ totalTicks = 0 /\ lockTimer = 0
    /\ linesCleared = 0 /\ blocksPlaced = 0
    /\ lastInput = Input(0, 0, 0, {})
    /\ dispatched = <<>>
    /\ wroteOutside = FALSE
    /\ sinceMove = 0
    /\ areCancellable = FALSE

\* fsGameClear in a process started without arguments.
fsGameClear(cfg, pieces, field) ==
    /\ clearInstance(cfg, pieces, field)
    /\ argv = << ProgName >>
    /\ o = NoOptions
    /\ exitCode = NoExit

(***************************************************************************)
(* Spec: games from reset on a FieldW x FieldH field, gravity 0, lock      *)
(* style STEP, played MaxTicks ticks deep with the inputs of a stacking    *)
(* player.                                                                 *)
(***************************************************************************)
Inputs ==
    { Input(0, 0, 0, {}),
      Input(-1, 0, 0, {}), Input(1, 0, 0, {}),
      Input(0, FSROT_CLOCKWISE, 0, {}),
      Input(0, 0, 0, {FSI_HOLD}),
      Input(0, 0, 0, {FSI_HARD_DROP}),
      Input(0, 0, FieldH, {FSI_HARD_DROP}) }

Configs ==
    [ fieldWidth : {FieldW}, fieldHeight : {FieldH}, msPerTick : {1},
      areDelay : {0}, lockStyle : {FSLOCK_STEP}, lockDelay : {1},
      gravity : {0}, goal : {2} ]

Init == \E cfg \in Configs : fsGameClear(cfg, RandPieces, EmptyField(FieldW, FieldH))

Next ==
    \E i \in Inputs : \E r \in Draws(i, RandPieces) :
        totalTicks < MaxTicks /\ fsGameTick(i, r)

Spec == Init /\ [][Next]_vars

(***************************************************************************)
(* SpecKin: the first MaxTicksKin ticks from reset with every piece type,  *)
(* every kind of input (both signs of gravity, the three rotations) and a  *)
(* fractional gravity option.                                              *)
(***************************************************************************)
KinInputs ==
    { Input(0, 0, 0, {}),
      Input(-1, 0, 0, {}), Input(1, 0, 0, {}), Input(-2, 0, 0, {}),
      Input(0, FSROT_CLOCKWISE, 0, {}), Input(0, FSROT_ANTICLOCKWISE, 0, {}),
      Input(0, FSROT_HALFTURN, 0, {}),
      Input(0, 0, 1, {}), Input(0, 0, -1, {}),
      Input(0, 0, 0, {FSI_HOLD}),
      Input(0, 0, 0, {FSI_HARD_DROP}),
      Input(0, 0, FieldH, {FSI_HARD_DROP}) }

KinConfigs ==
    [ fieldWidth : {FieldW}, fieldHeight : {FieldH}, msPerTick : {1},
      areDelay : {0}, lockStyle : {FSLOCK_STEP}, lockDelay : {1},
      gravity : {1}, goal : {2} ]

InitKin == \E cfg \in KinConfigs : fsGameClear(cfg, AllPieces, EmptyField(FieldW, FieldH))

NextKin ==
    \E i \in KinInputs : \E r \in Draws(i, AllPieces) :
        totalTicks < MaxTicksKin /\ fsGameTick(i, r)

SpecKin == InitKin /\ [][NextKin]_vars

(***************************************************************************)
(* SpecTall: a field of the greatest height the mask of clearLines allows,  *)
(* fieldHeight = FSBitsWidth, holding a stack as earlier play leaves it: a  *)
(* well two columns wide under the spawn columns of the O piece, its floor  *)
(* at row wellFloor, every other column filled, and at most one row with a  *)
(* second gap.  O pieces are dropped or locked in the well.                 *)
(***************************************************************************)
TallH == FSBitsWidth

\* The row yy of the stack.
TallRow(w, wellFloor, gapRow, yy) ==
    [xx \in 0..(w - 1) |->
        IF \/ xx = w \div 2 + 1
           \/ xx = w \div 2 /\ yy < wellFloor
           \/ xx = 0 /\ yy = gapRow
          THEN 0
          ELSE pieceColors[yy % FS_NPT]]

TallField(w, wellFloor, gapRow) ==
    [yy \in 0..(TallH - 1) |-> TallRow(w, wellFloor, gapRow, yy)]

TallInputs ==
    { Input(0, 0, 0, {}),
      Input(0, 0, 1, {}),
      Input(0, 0, 0, {FSI_HARD_DROP}),
      Input(0, 0, TallH, {FSI_HARD_DROP}) }

TallConfigs ==
    [ fieldWidth : {TallW}, fieldHeight : {TallH}, msPerTick : {1},
      areDelay : {0}, lockStyle : {FSLOCK_STEP}, lockDelay : {1},
      gravity : {0}, goal : {2 * NumWells} ]

InitTall ==
    \E cfg \in TallConfigs : \E wellFloor \in 2..(1 + NumWells) :
        \E gapRow \in -1..(NumGaps - 1) :
            fsGameClear(cfg, {FS_O}, TallField(TallW, wellFloor, gapRow))

NextTall ==
    \E i \in TallInputs : \E r \in Draws(i, {FS_O}) :
        totalTicks < MaxTicksTall /\ fsGameTick(i, r)

SpecTall == InitTall /\ [][NextTall]_vars

(***************************************************************************)
(* SpecGoal: the stack of SpecTall played to the end of the game, with the *)
(* goal options 1..MaxGoal and the areDelay options 0 and LongAre.  The    *)
(* host may mark the instance QUIT between two calls (state = FSS_QUIT is  *)
(* set by the frontend, whose source is not part of src/).                 *)
(***************************************************************************)
GoalConfigs ==
    [ fieldWidth : {TallW}, fieldHeight : {TallH}, msPerTick : {1},
      areDelay : {0, LongAre}, lockStyle : {FSLOCK_STEP}, lockDelay : {1},
      gravity : {0}, goal : 1..MaxGoal ]

InitGoal ==
    \E cfg \in GoalConfigs : \E wellFloor \in 2..(1 + NumWells) :
        \E gapRow \in -1..(NumGaps - 1) :
            fsGameClear(cfg, {FS_O}, TallField(TallW, wellFloor, gapRow))

tickGoal ==
    \E i \in TallInputs : \E r \in Draws(i, {FS_O}) :
        totalTicks < MaxTicksGoal /\ fsGameTick(i, r)

hostQuit ==
    /\ state # FSS_QUIT
    /\ state' = FSS_QUIT
    /\ UNCHANGED << b, fieldWidth, fieldHeight, nextPiece, piece, x, y, actualY,
                    hardDropY, theta, finesse, finessePieceDirection,
                    finessePieceRotation, msPerTick, areDelay, areTimer,
                    totalTicks, lockStyle, lockDelay, lockTimer, gravity,
                    lastInput, holdAvailable, holdPiece, linesCleared,
                    blocksPlaced, goal, dispatched, wroteOutside,
                    sinceMove, areCancellable, argv, o, exitCode >>

NextGoal == tickGoal \/ hostQuit

SpecGoal == InitGoal /\ [][NextGoal]_vars

(* SpecLock: games from reset with gravity of one sub-cell step per tick,  *)
(* lock styles STEP and MOVE and a lock delay of two ticks, played         *)
(* MaxTicksLock ticks deep: pieces land, slide, step off ledges and lock   *)
(* by the timer.                                                           *)
(***************************************************************************)
LockInputs ==
    { Input(0, 0, 0, {}),
      Input(-1, 0, 0, {}), Input(1, 0, 0, {}), Input(-2, 0, 0, {}),
      Input(0, FSROT_CLOCKWISE, 0, {}),
      Input(0, 0, FieldH, {FSI_HARD_DROP}) }

LockConfigs ==
    [ fieldWidth : {FieldW}, fieldHeight : {FieldH}, msPerTick : {1},
      areDelay : {0}, lockStyle : {FSLOCK_STEP, FSLOCK_MOVE}, lockDelay : {2},
      gravity : {1}, goal : {2} ]

InitLock ==
    \E cfg \in LockConfigs :
        fsGameClear(cfg, RandPieces, EmptyField(FieldW, FieldH))

NextLock ==
    \E i \in LockInputs : \E r \in Draws(i, RandPieces) :
        totalTicks < MaxTicksLock /\ fsGameTick(i, r)

SpecLock == InitLock /\ [][NextLock]_vars

(***************************************************************************)
(* SpecRot: one piece type per game, any of the seven, on an empty field   *)
(* with gravity 0: the piece is moved, rotated both ways and soft-dropped   *)
(* MaxTicksRot ticks deep, so that it reaches the walls and the floor in   *)
(* every orientation.                                                      *)
(***************************************************************************)
RotInputs ==
    { Input(0, 0, 0, {}),
      Input(-1, 0, 0, {}), Input(1, 0, 0, {}),
      Input(0, FSROT_CLOCKWISE, 0, {}), Input(0, FSROT_ANTICLOCKWISE, 0, {}),
      Input(0, 0, 1, {}) }

RotConfigs ==
    [ fieldWidth : {FieldW}, fieldHeight : {FieldH}, msPerTick : {1},
      areDelay : {0}, lockStyle : {FSLOCK_STEP}, lockDelay : {2},
      gravity : {0}, goal : {2} ]

InitRot ==
    \E cfg \in RotConfigs : \E p \in AllPieces :
        fsGameClear(cfg, {p}, EmptyField(FieldW, FieldH))

NextRot ==
    \E i \in RotInputs : \E r \in Draws(i, {nextPiece[1]}) :
        totalTicks < MaxTicksRot /\ fsGameTick(i, r)

SpecRot == InitRot /\ [][NextRot]_vars

(***************************************************************************)
(* SpecEntry: play under each of the three lock styles on a field that     *)
(* holds a ledge, as an O piece locked in the bottom right corner leaves   *)
(* it: a piece spawned above it lands on the ledge at once and can be slid *)
(* off it to fall to the floor.                                            *)
(***************************************************************************)
LedgeField ==
    [yy \in 0..(FieldH - 1) |-> [xx \in 0..(FieldW - 1) |->
        IF yy >= FieldH - 2 /\ xx >= FieldW - 2 THEN pieceColors[FS_O] ELSE 0]]

InitEntry ==
    \E cfg \in [ fieldWidth : {FieldW}, fieldHeight : {FieldH}, msPerTick : {1},
                 areDelay : {0},
                 lockStyle : {FSLOCK_ENTRY, FSLOCK_STEP, FSLOCK_MOVE},
                 lockDelay : {2}, gravity : {1}, goal : {2} ] :
        fsGameClear(cfg, RandPieces, LedgeField)

NextEntry ==
    \E i \in LockInputs : \E r \in Draws(i, RandPieces) :
        totalTicks < MaxTicksEntry /\ fsGameTick(i, r)

SpecEntry == InitEntry /\ [][NextEntry]_vars

(***************************************************************************)
(* SpecKick: the games of SpecRot, one piece type per game and gravity 0,  *)
(* on the field with the ledge, where a rotation next to the locked blocks *)
(* is kicked to another row.                                               *)
(***************************************************************************)
InitKick ==
    \E cfg \in RotConfigs : \E p \in AllPieces :
        fsGameClear(cfg, {p}, LedgeField)

SpecKick == InitKick /\ [][NextRot]_vars

(***************************************************************************)
(* SpecArgs: the process is started with up to MaxArgs arguments, each a   *)
(* known option, an unknown one, or a file name, and main calls            *)
(* fsParseOptString.                                                       *)
(***************************************************************************)
Arguments ==
    { << "-", "v" >>, << "-", "v", "v" >>, << "-", "i" >>,
      << "-", "-", "n", "o", "-", "i", "n", "i" >>,
      << "-", "h" >>, << "-", "-", "h", "e", "l", "p" >>,
      << "r" >>, << "s", "-" >>, << "-", "x" >>, << "-", "-", "x" >>,
      << "-" >>, << "-", "-" >>, << >> }

CommandLines ==
    UNION { [1..(n + 1) -> Arguments \cup {ProgName}] : n \in 0..MaxArgs }

InitArgs ==
    /\ \E cfg \in Configs : clearInstance(cfg, {FS_O}, EmptyField(FieldW, FieldH))
    /\ argv \in {a \in CommandLines : a[1] = ProgName}
    /\ o = NoOptions
    /\ exitCode = NoExit

\* main: fsParseOptString(&o, argc, argv).
callParseOptString ==
    /\ exitCode = NoExit
    /\ o' = fsParseOptString(argv).o
    /\ exitCode' = fsParseOptString(argv).exit
    /\ UNCHANGED << b, fieldWidth, fieldHeight, nextPiece, piece, x, y, actualY,
                    hardDropY, theta, finesse, finessePieceDirection,
                    finessePieceRotation, msPerTick, areDelay, areTimer,
                    totalTicks, lockStyle, lockDelay, lockTimer, gravity,
                    state, lastInput, holdAvailable, holdPiece, linesCleared,
                    blocksPlaced, goal, areCancellable, dispatched,
                    wroteOutside, sinceMove, argv >>

NextArgs == callParseOptString

SpecArgs == InitArgs /\ [][NextArgs]_vars

(***************************************************************************)
(* SpecIni: the host's ini parser hands key-value pairs to                 *)
(* unpackOptionValue, in any order and number, for an instance that has    *)
(* been cleared.                                                           *)
(***************************************************************************)
IniKeys ==
    { << "g", "a", "m", "e", ".", "g", "o", "a", "l" >>,
      << "g", "a", "m", "e", ".", "G", "O", "A", "L" >>,
      << "G", "a", "m", "e", ".", "g", "o", "a", "l" >>,
      << "g", "a", "m", "e", ".", "g", "a", "o", "l" >>,
      << "g", "o", "a", "l" >>,
      << "g", "a", "m", "e", ".", "m", "s", "P", "e", "r", "T", "i", "c", "k" >>,
      << "g", "a", "m", "e", ".", "f", "i", "e", "l", "d", "W", "i", "d", "t", "h" >>,
      << "g", "a", "m", "e", ".", "l", "o", "c", "k", "S", "t", "y", "l", "e" >>,
      << "g", "a", "m", "e", ".", "a", "r", "e", "C", "a", "n", "c", "e", "l", "l", "a", "b", "l", "e" >>,
      << "k", "e", "y", "b", "i", "n", "d", ".", "l", "e", "f", "t" >> }

IniValues ==
    { << "0" >>,
      << "1" >>,
      << "3" >>,
      << "7" >>,
      << "8" >>,
      << "9" >>,
      << "3", "1" >>,
      << "3", "2" >>,
      << "-", "1" >>,
      << "+", "5" >>,
      << "3", "x" >>,
      << "x" >>,
      << >>,
      << "y", "e", "s" >>,
      << "N", "o" >>,
      << "m", "a", "y", "b", "e" >>,
      << "s", "t", "e", "p" >>,
      << "M", "O", "V", "E" >> }

InitIni ==
    \E cfg \in Configs : fsGameClear(cfg, {FS_O}, EmptyField(FieldW, FieldH))

callUnpackOptionValue ==
    \E k \in IniKeys : \E value \in IniValues :
        Commit(unpackOptionValue(Game, k, value))

NextIni == callUnpackOptionValue

SpecIni == InitIni /\ [][NextIni]_vars

(***************************************************************************)
(***************************************************************************)
(* Properties.                                                             *)
(***************************************************************************)
\* A tick has returned.
Ticked == totalTicks > 0

\* The 4 cells of the active piece at (x, y, theta).
ActiveBlocks == fsPieceToBlocks(Game, piece, x, y, theta)

Dispatched(s) == \E k \in 1..Len(dispatched) : dispatched[k] = s

\* floor of a fixed-point value of SubCell units per cell.
Floor(a) == a \div SubCell

FullRow(yy) == RowNonEmpty(Game, yy)

HardDropIn(i) == FSI_HARD_DROP \in i.extra

\* The cells of the active piece that lie inside the field.
CellsInField ==
    {c \in BlockSet(ActiveBlocks) : InField(Game, c)}

\* The piece newPiece will spawn collides at the spawn position.
SpawnBlocked ==
    isCollision([Game EXCEPT !.piece = nextPiece[1]], fieldWidth \div 2 - 1, 0, 0)

\* The rows of field f that have no empty cell.
FullRowsOf(f) == {yy \in DOMAIN f : \A xx \in DOMAIN f[yy] : f[yy][xx] # 0}

\* The field f with its full rows removed, the rows above them moved down
\* in order and as many empty rows on top.
RowsRemoved(f, full) ==
    [d \in DOMAIN f |->
        IF d < Cardinality(full)
          THEN [xx \in DOMAIN f[d] |-> 0]
          ELSE f[CHOOSE yy \in DOMAIN f \ full :
                    yy + Cardinality({z \in full : z > yy}) = d]]

\* The field as lockPiece leaves it when the tick is entered in LINES.
LockedField == lockPiece(Game).b

\* The mask the first pass of clearLines builds from the locked field.
LockedMask == findLines([Game EXCEPT !.b = LockedField], 0, {}, 0).foundLines

\* C1: after every tick return, whenever piece != NONE, each of the 4 cells
\* projected from (piece, x, y, theta) lies inside the field.
C1_PieceInsideField ==
    (Ticked /\ piece # FS_NONE) =>
        \A n \in 1..FS_NBP : InField(Game, ActiveBlocks[n])

\* C2: whenever state is FALLING or LANDED at a tick return, hardDropY is the
\* greatest y' >= y such that the piece at (x, y'', theta) collides with
\* nothing for every y'' in y..y'.
C2_HardDropYAccurate ==
    (Ticked /\ state \in {FSS_FALLING, FSS_LANDED}) =>
        /\ hardDropY >= y
        /\ \A yy \in y..hardDropY : ~isCollision(Game, x, yy, theta)
        /\ isCollision(Game, x, hardDropY + 1, theta)

\* C3 (as stated): after every tick return with state FALLING or LANDED, the
\* integer row y equals floor(actualY).
C3_YIsFloorOfActualY ==
    (Ticked /\ state \in {FSS_FALLING, FSS_LANDED}) => y = Floor(actualY)

\* C3: after every tick return with state FALLING or LANDED, y is actualY
\* converted as the cast (FSInt) converts it, toward zero; it is
\* floor(actualY) whenever actualY >= 0.
C3_YIsTruncatedActualY ==
    (Ticked /\ state \in {FSS_FALLING, FSS_LANDED}) =>
        /\ y = (IF actualY >= 0 THEN actualY \div SubCell
                                ELSE -((-actualY) \div SubCell))
        /\ actualY >= 0 => y = Floor(actualY)

\* An upward input gravity has left the piece a fraction of a cell above
\* row 0.
C3_Witness ==
    /\ Ticked /\ state = FSS_FALLING
    /\ actualY < 0 /\ actualY % SubCell # 0
    /\ lastInput.gravity < 0

\* C4: after every tick return in which a piece is active (state FALLING,
\* LANDED or LINES), hardDropY >= y.
C4_HardDropYNotAbove ==
    (Ticked /\ state \in {FSS_FALLING, FSS_LANDED, FSS_LINES}) => hardDropY >= y

\* The clamp of doPieceGravity has acted on a hard drop below the spawn row.
C4_Witness ==
    /\ Ticked /\ state = FSS_LINES
    /\ lastInput.gravity > 0
    /\ y = hardDropY /\ y > 0

\* C5 (as stated): after every tick return, whenever piece != NONE, the piece
\* origin satisfies 0 <= x < fieldWidth.
C5_OriginInsideField ==
    (Ticked /\ piece # FS_NONE) => (0 <= x /\ x < fieldWidth)

\* C5: after every tick return, whenever piece != NONE, the piece origin (the
\* left edge of the piece's 4-column box) satisfies -2 <= x <= fieldWidth - 2.
C5_OriginWithinBox ==
    (Ticked /\ piece # FS_NONE) => (-2 <= x /\ x <= fieldWidth - 2)

\* A vertical I piece resting against the left wall.
C5_Witness ==
    Ticked /\ piece = FS_I /\ theta = 1 /\ x = -2 /\ lastInput.movement < 0

\* C6: after any tick in which the LINES state was processed, no row in
\* 0..fieldHeight-1 has all fieldWidth cells non-zero.
C6_NoFullRowAfterLines ==
    Dispatched(FSS_LINES) => \A yy \in 0..(fieldHeight - 1) : ~FullRow(yy)

\* A tick has processed LINES and removed a row.
C6_Witness ==
    Dispatched(FSS_LINES) /\ linesCleared > 0 /\ blocksPlaced > 1

\* C7 (as stated): with fieldHeight == 32 the row mask built by the first pass
\* loses no row: it has the bit of every full row (bottom row is bit 0),
\* the top row included.
C7_MaskKeepsEveryRow ==
    (state = FSS_LINES /\ fieldHeight = FSBitsWidth) =>
        LockedMask = {fieldHeight - 1 - yy : yy \in FullRowsOf(LockedField)}

\* C7: with fieldHeight == 32 a tick entered in LINES leaves the field with
\* exactly the full rows removed, the top row included, and adds their number
\* to linesCleared; the mask itself holds the bit of every full row but row 0,
\* whose bit the last left shift pushes out of the word.
C7_TallClearRemovesFullRows ==
    [][(state = FSS_LINES /\ fieldHeight = FSBitsWidth) =>
        /\ b' = RowsRemoved(LockedField, FullRowsOf(LockedField))
        /\ linesCleared' = linesCleared + Cardinality(FullRowsOf(LockedField))
        /\ LockedMask = {fieldHeight - 1 - yy :
                            yy \in FullRowsOf(LockedField) \ {0}}]_vars

\* An O piece locked in rows 0 and 1 of the 32-row field has completed both,
\* and both are gone.
C7_Witness ==
    /\ fieldHeight = FSBitsWidth
    /\ Dispatched(FSS_LINES) /\ piece = FS_NONE /\ y = 0
    /\ linesCleared = 2 /\ blocksPlaced = 1
    /\ \A xx \in 0..(fieldWidth - 1) : b[0][xx] = 0 /\ b[1][xx] = 0

\* C8 (as stated): a tick carrying HARD_DROP with gravity 0 while a piece is
\* active locks the piece in that tick: blocksPlaced increases by 1 and the
\* state after the tick is ARE or NEW_PIECE.
C8_HardDropLocksInTick ==
    [][(/\ state \in {FSS_FALLING, FSS_LANDED}
        /\ HardDropIn(lastInput') /\ lastInput'.gravity = 0)
       => (/\ blocksPlaced' = blocksPlaced + 1
           /\ state' \in {FSS_ARE, FSS_NEW_PIECE})]_vars

\* C8: a tick carrying HARD_DROP entered with a piece active returns with
\* state LINES, the field and blocksPlaced as they were and the piece at the
\* row gravity took it to (its own row when the tick's gravity is 0); the tick
\* after it, entered in LINES, stores the piece's cells at that row, adds 1 to
\* blocksPlaced and returns in ARE or GAMEOVER; a tick entered in NEW_PIECE
\* (the first after reset) only spawns.
C8_HardDropLocksNextTick ==
    [][/\ (state \in {FSS_FALLING, FSS_LANDED} /\ HardDropIn(lastInput'))
            => /\ state' = FSS_LINES
               /\ b' = b /\ blocksPlaced' = blocksPlaced
               /\ piece' # FS_NONE
               /\ (lastInput'.gravity = 0 /\ gravity = 0
                   /\ ~(FSI_HOLD \in lastInput'.extra)) => y' = y
       /\ state = FSS_LINES
            => /\ blocksPlaced' = blocksPlaced + 1
               /\ state' \in {FSS_ARE, FSS_GAMEOVER}
               /\ piece' = FS_NONE
               /\ linesCleared' = linesCleared =>
                    \A c \in CellsInField : b'[c[2]][c[1]] = pieceColors[piece]
       /\ state = FSS_NEW_PIECE
            => /\ b' = b /\ blocksPlaced' = blocksPlaced
               /\ state' \in {FSS_FALLING, FSS_GAMEOVER}]_vars

\* A HARD_DROP tick with no gravity has returned: the piece is above its
\* hardDropY and not locked.
C8_Witness ==
    /\ Ticked /\ state = FSS_LINES
    /\ HardDropIn(lastInput) /\ lastInput.gravity = 0
    /\ y < hardDropY /\ piece # FS_NONE

\* C9 (as stated): in the tick in which ARE completes, the new piece is
\* spawned and the FALLING body also executes.
C9_SpawnAndFallInOneTick ==
    [][(state = FSS_ARE /\ Dispatched(FSS_NEW_PIECE)' /\ state' # FSS_GAMEOVER)
       => Dispatched(FSS_FALLING)']_vars

\* C9: the tick in which ARE completes also dispatches NEW_PIECE, and a tick
\* that dispatches NEW_PIECE without lockout ends there: the FALLING body is
\* not run, the piece is at its spawn position whatever the input, and the
\* hold slot is untouched.
C9_SpawnTickEndsAtSpawn ==
    [][/\ (state = FSS_ARE /\ state' # FSS_ARE) => Dispatched(FSS_NEW_PIECE)'
       /\ (Dispatched(FSS_NEW_PIECE)' /\ state' # FSS_GAMEOVER)
            => /\ ~Dispatched(FSS_FALLING)'
               /\ state' = FSS_FALLING
               /\ x' = fieldWidth \div 2 - 1 /\ y' = 0 /\ actualY' = 0
               /\ theta' = 0
               /\ holdPiece' = holdPiece]_vars

\* ARE has completed in a tick whose input asked for a move or a hard drop,
\* and the piece is at its spawn position.
C9_Witness ==
    /\ dispatched = <<FSS_ARE, FSS_NEW_PIECE>>
    /\ state = FSS_FALLING
    /\ (lastInput.movement # 0 \/ HardDropIn(lastInput))
    /\ x = fieldWidth \div 2 - 1 /\ y = 0

\* C10: if, when NEW_PIECE is dispatched, the freshly spawned piece collides
\* with occupied cells, the state is GAMEOVER when that tick returns and the
\* field is not modified by that tick.
C10_LockoutOnSpawn ==
    [][(Dispatched(FSS_NEW_PIECE)' /\ SpawnBlocked)
       => (state' = FSS_GAMEOVER /\ b' = b)]_vars

\* A spawn onto occupied cells has ended the game.
C10_Witness ==
    /\ state = FSS_GAMEOVER /\ Dispatched(FSS_NEW_PIECE)
    /\ linesCleared < goal
    /\ isCollision(Game, x, y, theta)

\* C11: with goal == n > 0, state becomes GAMEOVER exactly in the tick whose
\* clearLines call first makes linesCleared >= n (or on a spawn collision);
\* at every tick return before that linesCleared < n, and a LINES step that
\* leaves linesCleared < n returns in ARE.
C11_GameEndsAtGoal ==
    [][/\ (state = FSS_LINES /\ state' # FSS_QUIT)
            => /\ linesCleared < goal
               /\ linesCleared' >= goal => state' = FSS_GAMEOVER
               /\ linesCleared' < goal => state' = FSS_ARE
       /\ (state # FSS_GAMEOVER /\ state' = FSS_GAMEOVER)
            => \/ Dispatched(FSS_LINES)' /\ linesCleared' >= goal
               \/ Dispatched(FSS_NEW_PIECE)' /\ linesCleared' < goal
       /\ (state' \notin {FSS_GAMEOVER, FSS_QUIT}) => linesCleared' < goal]_vars

\* The tick that locked a piece brought linesCleared from below the goal to
\* the goal or past it and ended the game.
C11_Witness ==
    /\ state = FSS_GAMEOVER /\ dispatched = <<FSS_LINES, FSS_GAMEOVER>>
    /\ linesCleared >= goal /\ goal > 1

HoldIn(i) == FSI_HOLD \in i.extra

Active == state \in {FSS_FALLING, FSS_LANDED}

\* C12: at most one hold takes effect per piece lifetime: a HOLD that is
\* honoured leaves holdAvailable false; while it is false a HOLD input changes
\* neither piece, holdPiece, the preview queue nor the position; and
\* holdAvailable becomes true again only in a tick that dispatches NEW_PIECE.
C12_OneHoldPerPiece ==
    [][/\ (Active /\ HoldIn(lastInput') /\ holdAvailable) => ~holdAvailable'
       /\ (Active /\ HoldIn(lastInput') /\ ~holdAvailable)
            => /\ ~holdAvailable'
               /\ piece' = piece /\ holdPiece' = holdPiece
               /\ nextPiece' = nextPiece
               /\ (lastInput'.movement = 0 /\ lastInput'.rotation = 0)
                    => (x' = x /\ theta' = theta)
               /\ (lastInput'.gravity = 0 /\ gravity = 0) => y' = y
       /\ (~holdAvailable /\ holdAvailable') => Dispatched(FSS_NEW_PIECE)']_vars

\* A HOLD input has been ignored: the piece is away from the spawn column
\* after a tick whose only input was HOLD.
C12_Witness ==
    /\ Active /\ HoldIn(lastInput) /\ ~holdAvailable
    /\ holdPiece # FS_NONE
    /\ x # fieldWidth \div 2 - 1

SpawnProbe(p) ==
    probeDown([Game EXCEPT !.piece = p, !.x = fieldWidth \div 2 - 1,
                           !.theta = 0], 0) - 1

\* C14: a HOLD input with a piece in the hold slot and holdAvailable true
\* exchanges the active piece with holdPiece, resets x, y, actualY, theta and
\* lockTimer to the spawn values, leaves holdAvailable false, refreshes
\* hardDropY for the swapped-in piece and leaves the preview queue and the
\* field unchanged.  The first conjunct is the instance as the hold block
\* leaves it; the second what is left of it when the tick returns, the tick
\* having no other input.
C14_HoldSwaps ==
    [][(Active /\ HoldIn(lastInput') /\ holdAvailable /\ holdPiece # FS_NONE)
        => /\ LET h == holdStep(Game, lastInput', nextPiece[1])
              IN  /\ h.piece = holdPiece /\ h.holdPiece = piece
                  /\ h.x = fieldWidth \div 2 - 1
                  /\ h.y = 0 /\ h.actualY = 0 /\ h.theta = 0
                  /\ h.lockTimer = 0
                  /\ ~h.holdAvailable
                  /\ h.hardDropY = SpawnProbe(holdPiece)
                  /\ h.nextPiece = nextPiece /\ h.b = b
           /\ piece' = holdPiece /\ holdPiece' = piece
           /\ ~holdAvailable'
           /\ nextPiece' = nextPiece /\ b' = b
           /\ (lastInput'.movement = 0 /\ lastInput'.rotation = 0)
                => /\ x' = fieldWidth \div 2 - 1 /\ theta' = 0
                   /\ hardDropY' = SpawnProbe(holdPiece)]_vars

\* A swap has just happened away from the spawn column: the piece held
\* before is active at spawn, on a field that holds locked blocks.
C14_Witness ==
    /\ Active /\ HoldIn(lastInput) /\ ~holdAvailable
    /\ holdPiece # FS_NONE /\ holdPiece # piece
    /\ blocksPlaced > 0
    /\ x = fieldWidth \div 2 - 1 /\ theta = 0
    /\ hardDropY < fieldHeight - 2

\* A call of fsGameTick (and not the host's quit) has made this step.
TickStep == totalTicks' = totalTicks + 1

\* C20: a tick that dispatches ARE compares the incremented areTimer with
\* ticks(areDelay) and dispatches NEW_PIECE in that same tick exactly when
\* the incremented value exceeds it; with areDelay == 0 the tick that locks
\* the piece (and does not end the game at the goal) also spawns the next.
C20_AreComparesIncremented ==
    [][TickStep =>
        /\ Dispatched(FSS_ARE)'
             => (Dispatched(FSS_NEW_PIECE)' <=> areTimer + 1 > TICKS(Game, areDelay))
        /\ (Dispatched(FSS_LINES)' /\ areDelay = 0 /\ linesCleared' < goal)
             => Dispatched(FSS_NEW_PIECE)']_vars

\* C18: every fsGameTick call increases totalTicks by exactly 1, whatever the
\* state at entry and however often the dispatcher is re-entered in the call.
\* (The only other step is the host's quit, which sets state to QUIT.)
C18_TotalTicksCountsCalls ==
    [][\/ totalTicks' = totalTicks + 1
       \/ (state # FSS_QUIT /\ state' = FSS_QUIT /\ totalTicks' = totalTicks)]_vars

\* A call entered in QUIT has been counted, after calls that re-entered the
\* dispatcher (a piece has been locked).
C18_Witness ==
    /\ dispatched = <<FSS_QUIT>> /\ state = FSS_QUIT
    /\ blocksPlaced > 0 /\ totalTicks > 3

\* C19: GAMEOVER and QUIT are absorbing and inert: a tick entered in either
\* state changes only totalTicks and lastInput.
C19_EndStatesInert ==
    [][(state \in {FSS_GAMEOVER, FSS_QUIT} /\ TickStep)
        => /\ state' = state /\ b' = b
           /\ piece' = piece /\ x' = x /\ y' = y /\ actualY' = actualY
           /\ theta' = theta /\ hardDropY' = hardDropY
           /\ holdPiece' = holdPiece /\ holdAvailable' = holdAvailable
           /\ nextPiece' = nextPiece
           /\ areTimer' = areTimer /\ lockTimer' = lockTimer
           /\ linesCleared' = linesCleared /\ blocksPlaced' = blocksPlaced
           /\ finesse' = finesse
           /\ finessePieceDirection' = finessePieceDirection
           /\ finessePieceRotation' = finessePieceRotation]_vars

\* A tick with a non-idle input has returned from QUIT with a piece in
\* play, and another from GAMEOVER.
C19_Witness ==
    /\ dispatched \in {<<FSS_GAMEOVER>>, <<FSS_QUIT>>}
    /\ lastInput # Input(0, 0, 0, {})
    /\ (state = FSS_QUIT => piece # FS_NONE)

\* C15: under lock style MOVE, with no HARD_DROP input, a piece is sent to
\* LINES only by a tick that ends a run of at least ticks(lockDelay)
\* consecutive ticks without a successful horizontal move or rotation; a
\* piece with a success in every such window never locks.
C15_MoveResetKeepsPieceAlive ==
    [][(TickStep /\ Active /\ lockStyle = FSLOCK_MOVE
          /\ ~HardDropIn(lastInput') /\ state' = FSS_LINES)
        => sinceMove' >= TICKS(Game, lockDelay)]_vars

\* A landed piece has outlived the lock delay several times over: it has
\* been in play for more than three times ticks(lockDelay) ticks, landed,
\* and has moved in this tick.
C15_Witness ==
    /\ lockStyle = FSLOCK_MOVE /\ state = FSS_LANDED
    /\ blocksPlaced = 0 /\ totalTicks > 3 * TICKS(Game, lockDelay) + 1
    /\ y = fieldHeight - 2
    /\ lastInput.movement # 0 /\ sinceMove = 0
    /\ lockTimer = 1

\* The falling body ran in this step for a piece that stays the active one.
FellStep == TickStep /\ Active /\ Dispatched(FSS_FALLING)' /\ piece' = piece

\* C16: under lock style STEP or MOVE, lockTimer is reset to 0 in every tick
\* in which gravity moves the piece down by at least one cell, also when the
\* piece lands in that tick (the count of the landed state then makes it 1).
C16_ResetOnEveryStepDown ==
    [][(FellStep /\ lockStyle \in {FSLOCK_STEP, FSLOCK_MOVE} /\ y' > y)
        => lockTimer' = IF state' = FSS_LANDED THEN 1 ELSE 0]_vars

\* The instance after a tick with rotation CW and then a tick with rotation
\* CCW, no other input, from the current state.
AfterCW == tickResult(Game, Input(0, FSROT_CLOCKWISE, 0, {}), nextPiece[1])

AfterCWThenCCW ==
    tickResult(AfterCW, Input(0, FSROT_ANTICLOCKWISE, 0, {}), nextPiece[1])

Restored(g) == g.x = x /\ g.y = y /\ g.theta = theta

\* C17 (as stated): on an empty field with gravity 0, from every position a
\* piece can reach, a CW tick followed by a CCW tick ends with the starting
\* (x, y, theta).
C17_RoundTripEverywhere ==
    (Active /\ blocksPlaced = 0 /\ gravity = 0) => Restored(AfterCWThenCCW)

\* C17: the round trip restores (x, y, theta) when the piece turned
\* clockwise does not collide at the same (x, y), so that the rotation
\* needs no kick, and the first tick does not send the piece to LINES.
C17_RoundTripWithoutKick ==
    (/\ Active /\ blocksPlaced = 0 /\ gravity = 0
     /\ ~isCollision(Game, x, y, (theta + 1) % 4)
     /\ AfterCW.state \in {FSS_FALLING, FSS_LANDED})
        => Restored(AfterCWThenCCW)

\* A CCW tick has just returned for a piece other than O that stands next
\* to the left wall, away from the spawn row, where its clockwise turn fits
\* without a kick and turns it.
C17_Witness ==
    /\ Active /\ blocksPlaced = 0 /\ gravity = 0
    /\ lastInput.rotation = FSROT_ANTICLOCKWISE
    /\ piece # FS_O /\ x <= 0 /\ y > 0
    /\ ~isCollision(Game, x, y, (theta + 1) % 4)
    /\ AfterCW.state \in {FSS_FALLING, FSS_LANDED}
    /\ AfterCW.theta # theta
    /\ Restored(AfterCWThenCCW)

\* The argument begins with '-'.
Dashed(a) == Len(a) > 0 /\ a[1] = "-"

KnownOptions ==
    { << "-", "v" >>, << "-", "v", "v" >>, << "-", "i" >>,
      << "-", "-", "n", "o", "-", "i", "n", "i" >>,
      << "-", "h" >>, << "-", "-", "h", "e", "l", "p" >> }

HelpOptions == { << "-", "h" >>, << "-", "-", "h", "e", "l", "p" >> }

\* The arguments of the command line at which a parser that follows the
\* usage text stops: a help option or an unknown option.
StopsAt ==
    {k \in 2..Len(argv) : \/ (Dashed(argv[k]) /\ argv[k] \notin KnownOptions)
                          \/ argv[k] \in HelpOptions}

FileArgs == {k \in 2..Len(argv) : ~Dashed(argv[k])}

Least(S) == CHOOSE k \in S : \A j \in S : k <= j

Greatest(S) == CHOOSE k \in S : \A j \in S : k >= j

\* C21: fsParseOptString takes every argument that does not begin with '-'
\* as the replay file name, the last one winning, without exiting, and
\* exits with status 1 at an argument that begins with '-' and is not one
\* of -h, --help, -i, --no-ini, -v, -vv.
C21_ReplayAndUnknownOptions ==
    LET res == fsParseOptString(argv)
    IN  IF StopsAt = {}
          THEN /\ res.exit = NoExit
               /\ res.o.replay = IF FileArgs = {} THEN << >>
                                  ELSE << argv[Greatest(FileArgs)] >>
          ELSE res.exit = IF argv[Least(StopsAt)] \in HelpOptions THEN 0 ELSE 1

\* The decimal reading of a value: an optional sign and one or more digits.
WellFormed(value) ==
    LET q == IF CharAt(value, 1) \in {"-", "+"} THEN 2 ELSE 1
    IN  /\ Len(value) >= q
        /\ \A k \in q..Len(value) : isdigit(value[k])

RECURSIVE Magnitude(_, _)
Magnitude(value, k) ==
    IF k = 0 \/ ~isdigit(value[k]) THEN 0
    ELSE 10 * Magnitude(value, k - 1) + DigitValue(value[k])

NumberOf(value) ==
    IF value[1] = "-" THEN -Magnitude(value, Len(value))
                      ELSE Magnitude(value, Len(value))

\* The options of unpackOptionValue: the key after "game.", in lower case,
\* with the field it sets and, for the integer options, its range.
IntOptions ==
    { [key |-> << "a", "r", "e", "d", "e", "l", "a", "y" >>, id |-> "areDelay", lo |-> 0, hi |-> LLONG_MAX],
      [key |-> << "l", "o", "c", "k", "d", "e", "l", "a", "y" >>, id |-> "lockDelay", lo |-> 0, hi |-> LLONG_MAX],
      [key |-> << "m", "s", "p", "e", "r", "t", "i", "c", "k" >>, id |-> "msPerTick", lo |-> 1, hi |-> INT_MAX],
      [key |-> << "f", "i", "e", "l", "d", "w", "i", "d", "t", "h" >>, id |-> "fieldWidth", lo |-> 0, hi |-> FS_MAX_WIDTH],
      [key |-> << "g", "o", "a", "l" >>, id |-> "goal", lo |-> 0, hi |-> LLONG_MAX] }

LowerOf(str) == [k \in 1..Len(str) |-> tolower(str[k])]

\* k names the option opt.
Names(k, key) ==
    /\ Len(k) > 5 /\ SubSeq(k, 1, 5) = Lit.gameprefix
    /\ LowerOf(SubSeq(k, 6, Len(k))) = key

BoolWords == { << "t", "r", "u", "e" >>, << "y", "e", "s" >>, << "1" >>, << "f", "a", "l", "s", "e" >>, << "n", "o" >>, << "0" >> }

StyleWords == { << "e", "n", "t", "r", "y" >>, << "0" >>, << "s", "t", "e", "p" >>, << "1" >>, << "m", "o", "v", "e" >>, << "2" >> }

\* The value is one that the option named by k rejects: not a decimal
\* number or outside [lo, hi] for an integer option, no boolean word for
\* areCancellable, no lock style for lockStyle.
Rejected(k, value) ==
    \/ \E opt \in IntOptions :
          /\ Names(k, opt.key)
          /\ (~WellFormed(value) \/ NumberOf(value) \notin opt.lo..opt.hi)
    \/ Names(k, << "a", "r", "e", "c", "a", "n", "c", "e", "l", "l", "a", "b", "l", "e" >>) /\ LowerOf(value) \notin BoolWords
    \/ Names(k, << "l", "o", "c", "k", "s", "t", "y", "l", "e" >>) /\ LowerOf(value) \notin StyleWords

UnknownKey(k) ==
    /\ \A opt \in IntOptions : ~Names(k, opt.key)
    /\ ~Names(k, << "a", "r", "e", "c", "a", "n", "c", "e", "l", "l", "a", "b", "l", "e" >>) /\ ~Names(k, << "l", "o", "c", "k", "s", "t", "y", "l", "e" >>)

\* C22: a value that a game.* option rejects leaves the destination field,
\* and every other field, with its previous value, and an unknown key
\* changes no field.
C22_RejectedValueKeepsField ==
    \A k \in IniKeys : \A value \in IniValues :
        (Rejected(k, value) \/ UnknownKey(k))
            => unpackOptionValue(Game, k, value) = Game

\* Options have been set away from their defaults, so that a rejected value
\* meets previous values that a parser put there.
C22_Witness ==
    /\ goal = 7 /\ msPerTick = 3 /\ fieldWidth = 0
    /\ lockStyle = FSLOCK_MOVE /\ areCancellable

\* C23: an in-range integer value that the signed destination field of
\* FieldBits bits cannot represent is not stored: the field keeps its
\* previous value, also at the boundary value 2^(FieldBits - 1).
C23_UnrepresentableNeverStored ==
    \A k \in IniKeys : \A value \in IniValues : \A opt \in IntOptions :
        (/\ Names(k, opt.key) /\ WellFormed(value)
         /\ NumberOf(value) \in opt.lo..opt.hi
         /\ llabs(NumberOf(value)) > Pow2(FieldBits - 1) - 1)
            => unpackOptionValue(Game, k, value) = Game

\* The rows of field f that are not full, from top to bottom.
KeptRows(f) ==
    LET RECURSIVE from(_)
        from(yy) ==
            IF yy \notin DOMAIN f THEN << >>
            ELSE IF yy \in FullRowsOf(f) THEN from(yy + 1)
            ELSE << f[yy] >> \o from(yy + 1)
    IN from(0)

\* C24: for a field of at most 31 rows clearLines returns the number k of
\* rows with no zero cell; the rows that are not full keep their contents and
\* their top-to-bottom order and fill the bottom fieldHeight - k rows, and the
\* top k rows are all zero.  Checked on the field every tick entered in LINES
\* hands to clearLines.
C24_ClearLinesMatchesReference ==
    (state = FSS_LINES /\ fieldHeight <= 31) =>
        LET f == LockedField
            k == Cardinality(FullRowsOf(f))
            r == clearLines([Game EXCEPT !.b = f])
        IN /\ r.filledLineCount = k
           /\ \A yy \in 0..(k - 1) : \A xx \in 0..(fieldWidth - 1) :
                  r.b[yy][xx] = 0
           /\ \A n \in 1..(fieldHeight - k) : r.b[k + n - 1] = KeptRows(f)[n]
           /\ Len(KeptRows(f)) = fieldHeight - k

\* clearLines is handed a field with a full row that has a row with blocks in
\* it above and below.
C24_Witness ==
    /\ state = FSS_LINES /\ fieldHeight <= 31
    /\ \E yy \in FullRowsOf(LockedField) :
          /\ \E u \in 0..(yy - 1) : u \notin FullRowsOf(LockedField)
                /\ \E xx \in 0..(fieldWidth - 1) : LockedField[u][xx] # 0
          /\ \E u \in (yy + 1)..(fieldHeight - 1) :
                u \notin FullRowsOf(LockedField)

Directions == {FSROT_CLOCKWISE, FSROT_ANTICLOCKWISE, FSROT_HALFTURN}

\* The row of kick entries doRotate walks for the active piece: the row of
\* the table of the direction that the current theta indexes.
KickRow(direction) == kickTable(kickTableNo(Game, direction))[theta + 1]

\* The entries before the first WK_END entry of the row.
KickCount(direction) ==
    Cardinality({k \in 1..FS_MAX_KICK_LEN :
                    \A j \in 1..k : KickRow(direction)[j][3] # WK_END})

NewTheta(direction) == (theta + direction) % 4

\* The entries of the row, before its end, at which the turned piece fits.
Fitting(direction) ==
    {k \in 1..KickCount(direction) :
        ~isCollision(Game, x + KickRow(direction)[k][1],
                     y + KickRow(direction)[k][2], NewTheta(direction))}

\* C25: for an active piece and each direction +1, -1, +2, doRotate commits
\* exactly the first entry (dx, dy) of the row indexed by the current theta,
\* before the first WK_END entry, at which the piece at (x+dx, y+dy, newTheta)
\* does not collide, with newTheta = (theta + direction) mod 4; if no entry
\* fits it returns failure and leaves x, y and theta (the whole instance)
\* unchanged.
C25_FirstFittingKick ==
    Active => \A direction \in Directions :
        LET r == doRotate(Game, direction)
            fit == Fitting(direction)
        IN IF fit = {}
             THEN ~r.ok /\ r.g = Game
             ELSE /\ r.ok
                  /\ r.g = [Game EXCEPT
                       !.x = x + KickRow(direction)[Least(fit)][1],
                       !.y = y + KickRow(direction)[Least(fit)][2],
                       !.theta = NewTheta(direction)]

\* A clockwise tick has returned with blocks locked in the field and the
\* piece where one rotation needs a kick later in the row than another entry
\* that also fits, and another rotation has no entry that fits.
C25_Witness ==
    /\ Active /\ blocksPlaced > 0 /\ lastInput.rotation = FSROT_CLOCKWISE
    /\ \E direction \in Directions :
          /\ Fitting(direction) # {}
          /\ Least(Fitting(direction)) > 1
          /\ Cardinality(Fitting(direction)) > 1
    /\ \E direction \in Directions : Fitting(direction) = {}

Sign(n) == IF n < 0 THEN -1 ELSE IF n > 0 THEN 1 ELSE 0

Abs(n) == IF n < 0 THEN -n ELSE n

\* The number of consecutive collision-free single-cell steps the active
\* piece has in direction dir at its (y, theta).
FreeSteps(dir) ==
    Cardinality({j \in 1..(fieldWidth + FS_NBP) :
                    \A m \in 1..j : ~isCollision(Game, x + dir * m, y, theta)})

StepsTaken(n) ==
    IF Abs(n) < FreeSteps(Sign(n)) THEN Abs(n) ELSE FreeSteps(Sign(n))

RECURSIVE IdleTicks(_, _)
IdleTicks(g, k) ==
    IF k = 0 THEN g
    ELSE tickResult(IdleTicks(g, k - 1), Input(0, 0, 0, {}), g.nextPiece[1])

\* The tick that has just returned was entered with the piece falling and
\* has left it landed.
LandedInTick == state = FSS_LANDED /\ dispatched = << FSS_FALLING >>

\* From the k-th tick without input on, counted from the current state, the
\* piece is in LINES, not earlier; the field is not written before the tick
\* after it, which dispatches LINES and places the piece.
LocksAfter(k) ==
    /\ \A j \in 1..(k - 1) : IdleTicks(Game, j).state = FSS_LANDED
    /\ IdleTicks(Game, k).state = FSS_LINES
    /\ IdleTicks(Game, k).b = b
    /\ IdleTicks(Game, k).blocksPlaced = blocksPlaced
    /\ IdleTicks(Game, k + 1).dispatched[1] = FSS_LINES
    /\ IdleTicks(Game, k + 1).blocksPlaced = blocksPlaced + 1

\* lockTimer is counted up only by a tick that ends with state LANDED:
\* whatever the input of the next tick, a tick that ends in another state
\* leaves lockTimer as it was or at 0.
CountsOnlyLanded ==
    \A i \in LockInputs :
        LET after == tickResult(Game, i, nextPiece[1])
        IN after.state # FSS_LANDED =>
               (after.lockTimer = lockTimer \/ after.lockTimer = 0)

\* C27 (as stated), for lock style ENTRY: a piece that lands in tick t and
\* then receives no input has state set to LINES exactly in tick
\* t + ticks(lockDelay) + 1.
C27_LocksDelayAfterLanding ==
    (LandedInTick /\ lockStyle = FSLOCK_ENTRY)
        => LocksAfter(TICKS(Game, lockDelay) + 1)

\* C27: lockTimer is counted up only by ticks that end with state LANDED and
\* compared strictly: a piece that lands in tick t, which leaves lockTimer
\* at c (1 when the timer was 0 as the piece landed), and then receives no
\* input has state set to LINES exactly in tick t + ticks(lockDelay) + 2 - c,
\* not earlier, and the following tick's LINES dispatch writes its cells.
C27_LocksWhenTimerExceedsDelay ==
    /\ CountsOnlyLanded
    /\ LandedInTick =>
          /\ lockTimer >= 1 /\ lockTimer <= TICKS(Game, lockDelay) + 1
          /\ LocksAfter(TICKS(Game, lockDelay) + 2 - lockTimer)

\* Under ENTRY a piece has landed on the floor with the count of its stay on
\* the ledge carried over, and under another style one has landed with the
\* timer at 0.
C27_Witness ==
    /\ LandedInTick /\ y = fieldHeight - 2
    /\ \/ lockStyle = FSLOCK_ENTRY /\ lockTimer > 1
       \/ lockStyle = FSLOCK_STEP /\ lockTimer = 1

\* The rotation the next tick asks for, as doRotate performs it on the
\* current instance.
Rotated == doRotate(Game, lastInput'.rotation)

\* C28: when a rotation succeeds with a kick (dx, dy), dy != 0, in a tick
\* with no hold, no horizontal movement and zero total gravity, the piece is
\* at (x+dx, y+dy, newTheta) when the tick returns: the gravity step does not
\* move it back to the pre-kick row.
C28_KickedRowIsKept ==
    [][(/\ Active
        /\ lastInput'.rotation # 0 /\ lastInput'.movement = 0
        /\ FSI_HOLD \notin lastInput'.extra
        /\ msPerTick * gravity + lastInput'.gravity = 0
        /\ Rotated.ok /\ Rotated.g.y # y)
       => (x' = Rotated.g.x /\ y' = Rotated.g.y /\ theta' = Rotated.g.theta)]_vars

\* C29: at every tick return with state FALLING, LANDED or LINES, none of the
\* 4 cells of the active piece at (x, y, theta) is occupied (value > 1) in
\* the field: the active piece never overlaps locked blocks.
C29_PieceOverlapsNoBlock ==
    (Ticked /\ state \in {FSS_FALLING, FSS_LANDED, FSS_LINES}) =>
        \A c \in CellsInField : b[c[2]][c[1]] <= 1

\* C30: a piece is locked only while resting: whenever a tick returns with
\* state LINES, so that the next call dispatches LINES and lockPiece writes
\* the piece, y == hardDropY and the piece would collide one row lower, under
\* every lock style and for HARD_DROP with zero gravity.
C30_LockedOnlyAtRest ==
    (Ticked /\ state = FSS_LINES) =>
        (y = hardDropY /\ isCollision(Game, x, y + 1, theta))

\* The seven colour tags 0x10..0x70.
ColourTags == {pieceColors[p] : p \in 0..(FS_NPT - 1)}

\* Every cell of the field is 0 or a colour tag, so that the test of
\* clearLines (cell != 0) and the test of isOccupied (cell > 1) agree.
CellsAreTags ==
    \A yy \in 0..(fieldHeight - 1) : \A xx \in 0..(fieldWidth - 1) :
        /\ b[yy][xx] \in {0} \cup ColourTags
        /\ (b[yy][xx] # 0) = (b[yy][xx] > 1)

\* The 4 projected cells of the active piece are cells of the field, and
\* lockPiece writes the colour of the piece to them, leaves every other cell
\* as it was and adds 1 to blocksPlaced.
LockWritesPiece ==
    /\ \A n \in 1..FS_NBP : InField(Game, ActiveBlocks[n])
    /\ Cardinality(BlockSet(ActiveBlocks)) = FS_NBP
    /\ lockPiece(Game).blocksPlaced = blocksPlaced + 1
    /\ \A yy \in 0..(fieldHeight - 1) : \A xx \in 0..(fieldWidth - 1) :
          lockPiece(Game).b[yy][xx] =
              IF <<xx, yy>> \in BlockSet(ActiveBlocks)
                THEN pieceColors[piece] ELSE b[yy][xx]

\* C31: every field cell is always 0 or one of the seven colour tags
\* 0x10..0x70, the value 1 never appears, and the tests cell != 0 and
\* cell > 1 agree on every cell; each LINES dispatch writes exactly the 4
\* projected cells of the active piece and adds exactly 1 to blocksPlaced.
C31_TagsAndFourCellsWritten ==
    /\ CellsAreTags
    /\ (Ticked /\ state = FSS_LINES) => LockWritesPiece

Tetrominoes == 0..(FS_NPT - 1)

\* C32: at every tick return, state FALLING, LANDED or LINES implies that
\* piece is one of the 7 tetrominoes, state ARE implies piece == NONE, and
\* state is never NEW_PIECE; the pieces waiting in the preview queue and a
\* piece held are tetrominoes too, so that the spawn, the falling body, the
\* swap hold and the LINES dispatch of the next call evaluate isCollision,
\* updateHardDropY and lockPiece with a piece other than NONE.
C32_PieceMatchesState ==
    Ticked =>
        /\ state \in {FSS_FALLING, FSS_LANDED, FSS_LINES} => piece \in Tetrominoes
        /\ state = FSS_ARE => piece = FS_NONE
        /\ state # FSS_NEW_PIECE
        /\ \A k \in 1..Len(nextPiece) : nextPiece[k] \in Tetrominoes
        /\ holdPiece \in Tetrominoes \cup {FS_NONE}

\* A tick has locked the second piece of a game in which a piece is held and
\* returned in ARE.
C32_Witness ==
    /\ Ticked /\ state = FSS_ARE /\ piece = FS_NONE
    /\ Dispatched(FSS_LINES) /\ blocksPlaced >= 2
    /\ holdPiece \in Tetrominoes

\* The states a call can dispatch after another one, in the order in which
\* the goto beginTick statements lead from one to the next: LINES to ARE or
\* GAMEOVER, ARE to NEW_PIECE, NEW_PIECE to GAMEOVER.
DispatchOrder == << FSS_LINES, FSS_ARE, FSS_NEW_PIECE, FSS_GAMEOVER >>

RankOf(s) == CHOOSE k \in 1..Len(DispatchOrder) : DispatchOrder[k] = s

\* The dispatches of the call that has returned are a single dispatch or go
\* strictly forward in DispatchOrder: no state is dispatched twice.
ChainGoesForward ==
    /\ Len(dispatched) >= 1 /\ Len(dispatched) <= Len(DispatchOrder)
    /\ Len(dispatched) > 1 =>
          /\ \A k \in 1..Len(dispatched) :
                \E n \in 1..Len(DispatchOrder) : DispatchOrder[n] = dispatched[k]
          /\ \A k \in 1..(Len(dispatched) - 1) :
                RankOf(dispatched[k]) < RankOf(dispatched[k + 1])

\* The probe loop of updateHardDropY started at row yy for the piece at
\* (x, theta) stops at a row no greater than fieldHeight, or at once.
ProbeStops(yy) ==
    LET stop == probeDown(Game, yy)
    IN stop >= yy /\ stop <= (IF yy > fieldHeight THEN yy ELSE fieldHeight)

=============================================================================
